---- MODULE Spec2Model ----
(***************************************************************************)
(* Resilient synchronisation subsystem of the QR check-in application:     *)
(*   - the durable offline queue          (lib/offline-storage.ts)         *)
(*   - the sync orchestrator              (lib/offline-sync.ts)            *)
(*   - the resilient-execution wrapper    (lib/network-resilience.ts)      *)
(*   - the check-in domain service        (lib/checkin-service.ts,         *)
(*                                         lib/database.ts)                *)
(* The event loop runs one task at a time: an action is one task, from the *)
(* event that starts it (a call, a timer, a response) to the next await on *)
(* a network request or to the end of the handler.                         *)
(***************************************************************************)
EXTENDS Integers, Sequences, FiniteSets, Bags, TLC

\* ------------------------------------------------------------------ bounds
MaxQueued == 2          \* ids the session generates for operations it enqueues
MaxFailures == 3        \* failing responses the network gives in a run
MaxCalls == 2           \* processCheckIn calls that build a request
MaxExec == 2            \* direct executeWithResilience calls
MaxStoreFailures == 2   \* store requests and direct operations that fail in a run
MaxDrains == 2          \* processRetryQueue runs in flight at once
MaxCapCalls == 52       \* executeWithResilience calls, where the map is filled
MaxListeners == 2       \* addListener calls
MaxTicks == 1           \* milliseconds Date.now() advances by during a run of drains
MaxProbes == 2          \* health probes in flight at once

\* ------------------------------------------------------- program constants
MAX_RETRY_COUNT == 3    \* offline-storage.ts: MAX_RETRY_COUNT
baseDelay == 1000       \* offline-sync.ts: getExponentialBackoffDelay
maxDelay == 30000
QUEUE_DEBOUNCE == 1000  \* offline-sync.ts: queueOperation's scheduleRetry delay

NoRetryAfter == 0 - 1   \* SyncResult.retryAfter left undefined

OpIds == 1..(MaxQueued + 1)
Bookings == {1}
OpTypes == {"checkin", "search", "other"}   \* "other": a tag syncOperation's default branch rejects
FetchOutcomes == {"ok", "conflict409", "client4xx", "server5xx", "neterr"}
JitterPct == {0, 9}     \* Math.random() * 0.1, in percent of the delay

\* The payload of a queued check-in: {bookingId, actualGuests, timestamp}
Payloads == [bookingId : Bookings, actualGuests : {2}, timestamp : {1}]
NoData == [bookingId |-> 0, actualGuests |-> 0, timestamp |-> 0]

\* a booking nobody has checked in
NotArrived == [isAttended |-> FALSE, attendedAt |-> 0, actualGuests |-> 0]

VARIABLES
  storage,        \* localStorage[OFFLINE_STORAGE_KEY], parsed: Seq of OfflineOperation
  nextId,         \* ids generated so far (generateOperationId is taken to be unique)
  isOnline,       \* OfflineSyncService.isOnline
  isSyncing,      \* OfflineSyncService.isSyncing
  retryTimeouts,  \* OfflineSyncService.retryTimeouts: id -> "none" | "pending" | "fired"
  orphanTimers,   \* id -> pending timers the map no longer refers to
  retryDelays,    \* id -> the delay of the timer retryTimeouts tracks, 0 when none
  passes,         \* triggerSync passes suspended on a fetch: Seq of [ops, idx]
  timerRuns,      \* retry-timer callbacks suspended on a fetch: bag of OfflineOperation
  record,         \* the remote store: booking id -> attendance fields
  now,            \* Date.now(), a logical clock
  \* history of the run, read by the properties only
  failedReplays,  \* id -> replays of it that failed so far
  succeeded,      \* ids a replay of which succeeded
  evicted,        \* ids incrementRetryCount removed at maxRetries
  cleared,        \* ids clearAllOperations removed, or wiped with the key
  replayedTwice,  \* ids a replay of which succeeded more than once
  firstReplay,    \* id -> the row the first replay of it that succeeded left
  lastStats,      \* the SyncStats the last triggerSync call to settle has returned
  \* the storage key as the durable queue finds it
  content,        \* what the key holds: "list" (storage, serialised) or what else
  hasWindow,      \* typeof window !== 'undefined': the code runs in a browser
  throwing,       \* the methods of localStorage that throw at present
  queueCall,      \* the last call of a durable-queue function made on its own
  retryRun,       \* the ErrorHandler.withRetry call made last, and where it stands
  \* lib/network-resilience.ts and lib/checkin-service.ts
  status,           \* NetworkResilience.status
  quality,          \* NetworkResilience.quality
  listeners,        \* NetworkResilience.listeners: Seq of registrations, each with the
                    \* function registered and what it was last called with
  unsubscribes,     \* the unsubscribe closures addListener has returned, in order
  monitoring,       \* isMonitoring, the two interval handles, the interval timers alive
                    \* and the window's listeners for 'online' and 'offline'
  probing,          \* checkNetworkStatus calls awaiting the answer of their fetch
  failedOperations, \* NetworkResilience.failedOperations, in insertion order
  nextOpId,         \* failed operations registered so far (their ids are unique)
  tasks,            \* bag of calls suspended on a store request or a direct operation
  drains,           \* processRetryQueue runs suspended on a replay: Seq of [ops, idx, task]
  lastResult,       \* what the last processCheckIn call to return has returned
  lastExec,         \* the last executeWithResilience call, up to its first await
  lastCatch,        \* the last executeWithResilience call whose operation threw
  exhausted,        \* ids whose entry left the map at maxRetries, not registered since
  execCalls,        \* direct executeWithResilience calls made so far
  storeFailures     \* store requests and direct operations that have failed so far

syncVars == <<storage, content, nextId, isOnline, isSyncing, retryTimeouts, orphanTimers,
              retryDelays, passes, timerRuns, record, now>>
\* the environment of the durable queue, and its calls made on their own
keyVars == <<hasWindow, throwing, queueCall>>
\* what the handlers of both services leave alone or only add to
histVars == <<failedReplays, succeeded, evicted, cleared, replayedTwice, firstReplay, lastStats,
              keyVars, retryRun>>
checkVars == <<status, quality, listeners, unsubscribes, monitoring, probing, failedOperations, nextOpId, tasks, drains, lastResult,
               lastExec, lastCatch, exhausted, execCalls, storeFailures>>
\* what the sync orchestrator owns and the check-in path never touches
syncOnlyVars == <<isOnline, isSyncing, retryTimeouts, orphanTimers, retryDelays, passes,
                  timerRuns>>
vars == <<syncVars, histVars, checkVars>>

\* ------------------------------------------------- lib/offline-storage.ts
IdsOf(ops) == {ops[i].id : i \in 1..Len(ops)}

getOfflineOperations(st) == st

removeOfflineOperation(st, operationId) ==
  SelectSeq(getOfflineOperations(st), LAMBDA op : op.id # operationId)

\* Array.prototype.find: the first element with the id, 0 when there is none
FindIndex(ops, operationId) ==
  IF \E i \in 1..Len(ops) : ops[i].id = operationId
  THEN CHOOSE i \in 1..Len(ops) :
         /\ ops[i].id = operationId
         /\ \A j \in 1..(i - 1) : ops[j].id # operationId
  ELSE 0

storeOfflineOperation(st, id, type, data, dateNow) ==
  Append(getOfflineOperations(st),
         [id |-> id, type |-> type, data |-> data, timestamp |-> dateNow,
          retryCount |-> 0, maxRetries |-> MAX_RETRY_COUNT])

\* an increment that removes only past maxRetries
incrementRetryCount_Late(st, operationId) ==
  LET operations == getOfflineOperations(st)
      i == FindIndex(operations, operationId)
  IN IF i = 0 THEN [st |-> st, shouldRetry |-> FALSE]
     ELSE LET rc == operations[i].retryCount + 1
          IN IF rc > operations[i].maxRetries
             THEN [st |-> removeOfflineOperation(st, operationId), shouldRetry |-> FALSE]
             ELSE [st |-> [operations EXCEPT ![i].retryCount = rc], shouldRetry |-> TRUE]

\* an increment that never removes
incrementRetryCount_Keep(st, operationId) ==
  LET operations == getOfflineOperations(st)
      i == FindIndex(operations, operationId)
  IN IF i = 0 THEN [st |-> st, shouldRetry |-> FALSE]
     ELSE [st |-> [operations EXCEPT ![i].retryCount = @ + 1],
           shouldRetry |-> operations[i].retryCount + 1 < operations[i].maxRetries]

\* returns the storage it leaves and the boolean it returns
incrementRetryCount(st, operationId) ==
  LET operations == getOfflineOperations(st)
      i == FindIndex(operations, operationId)
  IN IF i = 0 THEN [st |-> st, shouldRetry |-> FALSE]
     ELSE LET rc == operations[i].retryCount + 1
          IN IF rc >= operations[i].maxRetries
             THEN [st |-> removeOfflineOperation(st, operationId), shouldRetry |-> FALSE]
             ELSE [st |-> [operations EXCEPT ![i].retryCount = rc], shouldRetry |-> TRUE]

\* a filter that returns the newest entry first
getRetryableOperations_Reversed(st) ==
  LET kept == SelectSeq(getOfflineOperations(st), LAMBDA op : op.retryCount < op.maxRetries)
  IN [i \in 1..Len(kept) |-> kept[Len(kept) + 1 - i]]

getRetryableOperations(st) ==
  SelectSeq(getOfflineOperations(st), LAMBDA op : op.retryCount < op.maxRetries)

\* What the key can hold: the serialised list, nothing, text that is not JSON, or
\* JSON that is not a list (an object here).
ContentKinds == {"list", "absent", "malformed", "object"}

\* getOfflineOperations on the key as it is, lines 50-60: without a window it
\* returns [], getItem throwing and JSON.parse throwing are caught, nothing stored
\* reads as [], and whatever JSON.parse returns is returned as it is
ReadKey(kind, st, readThrows) ==
  IF ~hasWindow \/ readThrows \/ kind \in {"absent", "malformed"}
  THEN [isList |-> TRUE, list |-> <<>>]
  ELSE IF kind = "list" THEN [isList |-> TRUE, list |-> getOfflineOperations(st)]
  ELSE [isList |-> FALSE, list |-> <<>>]

\* saveOfflineOperations, lines 65-73: without a window it returns at once, and
\* setItem throwing is caught and logged
SaveKey(kind, st, operations, writeThrows) ==
  IF ~hasWindow \/ writeThrows THEN [content |-> kind, st |-> st]
  ELSE [content |-> "list", st |-> operations]

QueueOps == {"enqueue", "list", "listRetryable", "remove", "incrementRetry"}

\* What a durable-queue function does on the key as it is: whether it throws (push,
\* filter and find are called on what the read returned), what it read, what it
\* leaves under the key.
QueueFunction(op, kind, st, operationId, id, dateNow, readThrows, writeThrows) ==
  LET got == ReadKey(kind, st, readThrows)
      kept == [content |-> kind, st |-> st]
      left == CASE op = "enqueue" ->
                     SaveKey(kind, st,
                             storeOfflineOperation(got.list, id, "checkin",
                                                   [bookingId |-> 1, actualGuests |-> 2,
                                                    timestamp |-> dateNow], dateNow),
                             writeThrows)
                [] op = "remove" ->
                     SaveKey(kind, st, removeOfflineOperation(got.list, operationId),
                             writeThrows)
                [] op = "incrementRetry" ->
                     IF FindIndex(got.list, operationId) = 0 THEN kept
                     ELSE SaveKey(kind, st, incrementRetryCount(got.list, operationId).st,
                                  writeThrows)
                [] OTHER -> kept
  IN [threw |-> ~got.isList /\ op # "list",
      readAsList |-> got.isList,
      read |-> got.list,
      shouldRetry |-> /\ op = "incrementRetry" /\ got.isList
                      /\ incrementRetryCount(got.list, operationId).shouldRetry,
      left |-> IF got.isList THEN left ELSE kept]

NoQueueCall == [op |-> "none", content |-> "list", readThrows |-> FALSE,
                writeThrows |-> FALSE, threw |-> FALSE, readAsList |-> TRUE,
                read |-> <<>>, operationId |-> 0, shouldRetry |-> FALSE]

\* --------------------------------------------------- lib/offline-sync.ts
Min(a, b) == IF a < b THEN a ELSE b

\* a backoff that adds a whole delay of jitter
getExponentialBackoffDelay_Doubled(retryCount, jitterPct) ==
  LET delay == Min(baseDelay * (2 ^ retryCount), maxDelay)
  IN delay + delay

\* getExponentialBackoffDelay: min(base * 2^retryCount, cap) plus jitter
getExponentialBackoffDelay(retryCount, jitterPct) ==
  LET delay == Min(baseDelay * (2 ^ retryCount), maxDelay)
  IN delay + (jitterPct * delay) \div 100

\* JavaScript truthiness of SyncResult.retryAfter (undefined and 0 are falsy)
Truthy(retryAfter) == retryAfter # NoRetryAfter /\ retryAfter # 0

getSyncStats(st) ==
  LET n == Len(getRetryableOperations(st))
  IN [totalOperations |-> n, successfulSyncs |-> 0, failedSyncs |-> 0,
      pendingOperations |-> n]

\* the row of a booking, as the properties read it
RowOf(rec, bookingId) == IF bookingId \in DOMAIN rec THEN rec[bookingId] ELSE NotArrived

\* an update that adds the guests to those the row holds
StoreUpdate_AddGuests(rec, request) ==
  [rec EXCEPT ![request.bookingId] =
     [isAttended |-> TRUE, attendedAt |-> request.timestamp,
      actualGuests |-> @.actualGuests + request.actualGuests]]

\* an update that leaves the row of an attendee who has arrived
StoreUpdate_OnlyFirst(rec, request) ==
  IF rec[request.bookingId].isAttended THEN rec
  ELSE [rec EXCEPT ![request.bookingId] =
          [isAttended |-> TRUE, attendedAt |-> request.timestamp,
           actualGuests |-> request.actualGuests]]

\* lib/database.ts: the store's update of checkInAttendee lines 334-343, unconditional
StoreUpdate(rec, request) ==
  [rec EXCEPT ![request.bookingId] =
     [isAttended |-> TRUE, attendedAt |-> request.timestamp,
      actualGuests |-> request.actualGuests]]

\* The server behind POST /api/checkin, when it answers 2xx: the store's update of a
\* check-in, with the payload it was sent.
ApiCheckIn(rec, data) ==
  IF data.bookingId \in DOMAIN rec THEN StoreUpdate(rec, data) ELSE rec

\* syncCheckInOperation: the SyncResult for the response the fetch got
syncCheckInOperation(operation, outcome, jitterPct) ==
  CASE outcome = "ok" ->
         [success |-> TRUE, retryAfter |-> NoRetryAfter]
    [] outcome = "conflict409" ->
         [success |-> FALSE, retryAfter |-> 0]
    [] outcome = "server5xx" ->
         [success |-> FALSE,
          retryAfter |-> getExponentialBackoffDelay(operation.retryCount, jitterPct)]
    [] outcome = "client4xx" ->
         [success |-> FALSE, retryAfter |-> 0]
    [] OTHER ->   \* fetch rejected: network error
         [success |-> FALSE,
          retryAfter |-> getExponentialBackoffDelay(operation.retryCount, jitterPct)]

\* The state a handler works on, threaded through its calls.
Ctx == [st |-> storage, ct |-> content,
        rt |-> retryTimeouts, orph |-> orphanTimers, dl |-> retryDelays,
        rec |-> record,
        fr |-> failedReplays, su |-> succeeded, ev |-> evicted, cl |-> cleared,
        tw |-> replayedTwice, fl |-> firstReplay,
        ls |-> lastStats]

\* clearRetryTimeout: clearTimeout on the handle the map holds (a no-op on a timer
\* that has fired), and the map entry deleted
clearRetryTimeout(c, operationId) ==
  [c EXCEPT !.rt[operationId] = "none", !.dl[operationId] = 0]

\* scheduleRetry: clear the tracked timer, start a new one and track it
scheduleRetry(c, operationId, delayMs) ==
  [clearRetryTimeout(c, operationId) EXCEPT !.rt[operationId] = "pending",
                                           !.dl[operationId] = delayMs]

\* the last statement of the timer callback: retryTimeouts.delete(operationId),
\* which forgets the handle of a timer the callback has just scheduled
TimerCallbackEnd(c, operationId) ==
  IF c.rt[operationId] = "pending"
  THEN [c EXCEPT !.rt[operationId] = "none", !.dl[operationId] = 0,
                 !.orph[operationId] = @ + 1]
  ELSE [c EXCEPT !.rt[operationId] = "none", !.dl[operationId] = 0]

\* getOfflineOperations as the handler finds the key
Stored(c) == ReadKey(c.ct, c.st, "getItem" \in throwing)

\* the key holds JSON that is no list: filter, find and push are called on it, and
\* every function of the durable queue but getOfflineOperations throws a TypeError
Throws(c) == ~Stored(c).isList

\* saveOfflineOperations as the handler finds the storage
Save(c, operations) ==
  LET left == SaveKey(c.ct, c.st, operations, "setItem" \in throwing)
  IN [c EXCEPT !.ct = left.content, !.st = left.st]

\* removeOfflineOperation on the context: the list read, filtered and saved
CtxRemove(c, operationId) ==
  Save(c, removeOfflineOperation(Stored(c).list, operationId))

\* incrementRetryCount on the context: nothing is saved for an id the list read does
\* not hold; the history notes an eviction
CtxIncrement(c, operationId) ==
  LET operations == Stored(c).list
      c1 == IF FindIndex(operations, operationId) = 0 THEN c
            ELSE Save(c, incrementRetryCount(operations, operationId).st)
  IN [c1 EXCEPT !.ev = IF operationId \in IdsOf(c.st) /\ operationId \notin IdsOf(c1.st)
                       THEN @ \cup {operationId} ELSE @]

\* the boolean incrementRetryCount returns, whether or not its write is kept
ShouldRetry(c, operationId) ==
  incrementRetryCount(Stored(c).list, operationId).shouldRetry

NoteFailure(c, operationId) == [c EXCEPT !.fr[operationId] = @ + 1]

\* the history notes a replay the server accepted, and the row its first one left
NoteSuccess(c, operation) ==
  [c EXCEPT !.su = @ \cup {operation.id},
            !.tw = IF operation.id \in c.su THEN @ \cup {operation.id} ELSE @,
            !.fl[operation.id] = IF operation.id \in c.su THEN @
                                 ELSE RowOf(c.rec, operation.data.bookingId)]

\* triggerSync, lines 95-103: what the pass does with a SyncResult
SyncHandleResult(c, operation, result) ==
  IF result.success
  THEN clearRetryTimeout(CtxRemove(NoteSuccess(c, operation), operation.id),
                         operation.id)
  ELSE LET c1 == CtxIncrement(NoteFailure(c, operation.id), operation.id)
       IN IF ShouldRetry(c, operation.id) /\ Truthy(result.retryAfter)
          THEN scheduleRetry(c1, operation.id, result.retryAfter)
          ELSE c1

\* triggerSync, lines 104-116: syncOperation threw; jitterPct is what Math.random()
\* gives getExponentialBackoffDelay
SyncHandleThrow(c, operation, jitterPct) ==
  LET c1 == CtxIncrement(NoteFailure(c, operation.id), operation.id)
  IN IF ShouldRetry(c, operation.id)
     THEN scheduleRetry(c1, operation.id,
                        getExponentialBackoffDelay(operation.retryCount, jitterPct))
     ELSE c1

\* what the await of line 92 waits for: the fetch of a checkin operation, or a
\* promise syncOperation has settled already (search: resolved, unknown type:
\* rejected), on which the pass is resumed by a microtask
AwaitOf(operation) == IF operation.type = "checkin" THEN "fetch" ELSE "settled"

\* a triggerSync pass suspended at line 92 on operation i of its snapshot
PassAt(operations, i) ==
  [ops |-> operations, idx |-> i, awaiting |-> AwaitOf(operations[i])]

\* a pass or a processCheckIn call is waiting for its microtask: until it has run, no
\* timer fires, no response and no event is delivered; only the code that made the
\* call goes on
MicrotaskPending ==
  \/ \E p \in 1..Len(passes) : passes[p].awaiting = "settled"
  \/ \E task \in BagToSet(tasks) : task.kind = "settled"


Commit(c) ==
  /\ storage' = c.st
  /\ content' = c.ct
  /\ retryTimeouts' = c.rt
  /\ orphanTimers' = c.orph
  /\ retryDelays' = c.dl
  /\ record' = c.rec
  /\ failedReplays' = c.fr
  /\ succeeded' = c.su
  /\ evicted' = c.ev
  /\ cleared' = c.cl
  /\ replayedTwice' = c.tw
  /\ firstReplay' = c.fl
  /\ lastStats' = c.ls
  /\ UNCHANGED <<keyVars, retryRun>>

\* what lastStats holds when the promise of the triggerSync call was rejected
StatsRejected ==
  [totalOperations |-> 0 - 1, successfulSyncs |-> 0, failedSyncs |-> 0,
   pendingOperations |-> 0 - 1]

\* triggerSync returns getSyncStats(), lines 83 and 120-123, which throws on a key
\* that holds no list
ReturnStats(c) ==
  [c EXCEPT !.ls = IF Throws(c) THEN StatsRejected
                   ELSE getSyncStats(Stored(c).list)]

RemoveAt(s, k) == [i \in 1..(Len(s) - 1) |-> IF i < k THEN s[i] ELSE s[i + 1]]

\* the pass has dealt with the operation it awaited: the loop calls syncOperation
\* for the next one and awaits it, or the pass ends (lines 119-123)
PassGoesOn(c, p) ==
  LET pass == passes[p]
  IN IF pass.idx >= Len(pass.ops)
     THEN /\ Commit(ReturnStats(c))
          /\ isSyncing' = FALSE
          /\ passes' = RemoveAt(passes, p)
     ELSE /\ Commit(c)
          /\ passes' = [passes EXCEPT ![p] = PassAt(pass.ops, pass.idx + 1)]
          /\ UNCHANGED isSyncing

\* the durable queue has thrown in the loop, at line 96 or 99, and again at line 112
\* in the catch of the loop: the promise of the pass is rejected, line 119 is not
\* reached and isSyncing stays as it is
PassDies(c, p) ==
  /\ Commit([c EXCEPT !.ls = StatsRejected])
  /\ passes' = RemoveAt(passes, p)
  /\ UNCHANGED isSyncing

\* the guard without its test of the online flag
SyncBlocked_NoOnlineTest(online) == isSyncing

\* triggerSync line 82: the call returns at once
SyncBlocked(online) == isSyncing \/ ~online

\* triggerSync called with the device's online flag as the caller left it: lines
\* 82-92, and 119-123 when there is nothing to replay; getRetryableOperations() at
\* line 87 is outside the try of the loop
TriggerSyncCall(c, online) ==
  IF SyncBlocked(online)
  THEN /\ Commit(ReturnStats(c))
       /\ UNCHANGED <<isSyncing, passes>>
  ELSE IF Throws(c)
  THEN /\ Commit([c EXCEPT !.ls = StatsRejected])
       /\ isSyncing' = TRUE
       /\ passes' = passes
  ELSE LET operations == getRetryableOperations(Stored(c).list)
       IN IF operations = <<>>
          THEN /\ Commit(ReturnStats(c))
               /\ isSyncing' = FALSE
               /\ passes' = passes
          ELSE /\ Commit(c)
               /\ isSyncing' = TRUE
               /\ passes' = Append(passes, PassAt(operations, 1))

\* a manual triggerSync() call
TriggerSync ==
  /\ TriggerSyncCall(Ctx, isOnline)
  /\ UNCHANGED <<nextId, isOnline, timerRuns, now, checkVars>>

\* window 'online' event: isOnline = true; triggerSync()
OnlineEvent ==
  /\ hasWindow
  /\ ~MicrotaskPending
  /\ isOnline' = TRUE
  /\ TriggerSyncCall(Ctx, TRUE)
  /\ UNCHANGED <<nextId, timerRuns, now, checkVars>>

\* window 'offline' event
OfflineEvent ==
  /\ hasWindow
  /\ ~MicrotaskPending
  /\ isOnline
  /\ isOnline' = FALSE
  /\ UNCHANGED <<storage, content, nextId, isSyncing, retryTimeouts, orphanTimers,
                 retryDelays, passes,
                 timerRuns, record, now, histVars, checkVars>>

\* removeOfflineOperation for each operation of the list, in its order
RECURSIVE RemoveEach(_, _)
RemoveEach(c, operations) ==
  IF operations = <<>> THEN c
  ELSE RemoveEach(CtxRemove(c, Head(operations).id), Tail(operations))

\* clearAllOperations(), lines 315-323: clearTimeout on every timer the map tracks and
\* the map emptied, then the retryable operations removed from the key; a timer the
\* map has forgotten stays pending, and so does whatever is in flight
ClearAllOperations ==
  /\ LET c0 == [Ctx EXCEPT !.rt = [i \in OpIds |-> "none"],
                           !.dl = [i \in OpIds |-> 0]]
         c1 == IF Throws(c0) THEN c0
               ELSE RemoveEach(c0, getRetryableOperations(Stored(c0).list))
     IN Commit([c1 EXCEPT !.cl = @ \cup (IdsOf(c0.st) \ IdsOf(c1.st))])
  /\ UNCHANGED <<nextId, isOnline, isSyncing, passes, timerRuns, now, checkVars>>

\* queueOperation(type, data), lines 67-76: storeOfflineOperation generates the id
\* and then reads the key; when it throws, no timer is set
QueueOperation(type, data) ==
  /\ nextId < MaxQueued
  /\ LET operationId == nextId + 1
         c1 == Save(Ctx, storeOfflineOperation(Stored(Ctx).list, operationId, type,
                                               data, now))
     IN /\ Commit(IF Throws(Ctx) THEN Ctx
                  ELSE IF isOnline THEN scheduleRetry(c1, operationId, QUEUE_DEBOUNCE)
                  ELSE c1)
        /\ nextId' = operationId
  /\ UNCHANGED <<isOnline, isSyncing, passes, timerRuns, now, checkVars>>

RECURSIVE SumTo(_, _)
SumTo(f, n) == IF n = 0 THEN 0 ELSE f[n] + SumTo(f, n - 1)
FailuresSoFar == SumTo(failedReplays, MaxQueued + 1)

\* the response to the fetch a triggerSync pass awaits: lines 92-103, then the loop
\* goes on to the next await or to lines 119-123
SyncResponseJittered(p, outcome, jitterPct) ==
  /\ p \in 1..Len(passes)
  /\ passes[p].awaiting = "fetch"
  /\ ~MicrotaskPending
  /\ LET pass == passes[p]
         operation == pass.ops[pass.idx]
         result == syncCheckInOperation(operation, outcome, jitterPct)
         c0 == IF outcome = "ok" THEN [Ctx EXCEPT !.rec = ApiCheckIn(@, operation.data)]
               ELSE Ctx
     IN /\ outcome # "ok" => FailuresSoFar < MaxFailures
        /\ IF Throws(c0)
           THEN PassDies(IF result.success THEN NoteSuccess(c0, operation)
                         ELSE NoteFailure(c0, operation.id), p)
           ELSE PassGoesOn(SyncHandleResult(c0, operation, result), p)
  /\ UNCHANGED <<nextId, isOnline, timerRuns, now, checkVars>>

\* the same where the delay does not matter: Math.random() has returned 0
SyncResponse(p, outcome) == SyncResponseJittered(p, outcome, 0)

\* the microtask that resumes a pass after an await on a settled promise: lines
\* 93-103 for a search operation, 104-116 for one of an unknown type
SyncResumesJittered(p, jitterPct) ==
  /\ p \in 1..Len(passes)
  /\ passes[p].awaiting = "settled"
  /\ LET operation == passes[p].ops[passes[p].idx]
         success == [success |-> TRUE, retryAfter |-> NoRetryAfter]
     IN IF Throws(Ctx)
        THEN PassDies(IF operation.type = "search" THEN NoteSuccess(Ctx, operation)
                      ELSE NoteFailure(Ctx, operation.id), p)
        ELSE PassGoesOn(IF operation.type = "search"
                        THEN SyncHandleResult(Ctx, operation, success)
                        ELSE SyncHandleThrow(Ctx, operation, jitterPct), p)
  /\ UNCHANGED <<nextId, isOnline, timerRuns, now, checkVars>>

SyncResumes(p) == SyncResumesJittered(p, 0)

\* the timer callback from line 206, the device being online: the operation looked
\* up and, when found, replayed; the await on a settled promise lets nothing else in
TimerReplays(c0, operationId, jitterPct) ==
  LET operations == getRetryableOperations(Stored(c0).list)
      i == FindIndex(operations, operationId)
      operation == operations[i]
  IN IF i = 0
     THEN /\ Commit(TimerCallbackEnd(c0, operationId))
          /\ timerRuns' = timerRuns
     ELSE CASE operation.type = "checkin" ->
                 /\ Commit(c0)
                 /\ timerRuns' = timerRuns (+) SetToBag({operation})
            [] operation.type = "search" ->
                 /\ Commit(TimerCallbackEnd(
                      clearRetryTimeout(
                        CtxRemove(NoteSuccess(c0, operation), operationId),
                        operationId), operationId))
                 /\ timerRuns' = timerRuns
            [] OTHER ->
                 /\ LET c1 == CtxIncrement(NoteFailure(c0, operationId), operationId)
                        c2 == IF ShouldRetry(c0, operationId)
                              THEN scheduleRetry(c1, operationId,
                                     getExponentialBackoffDelay(
                                       operation.retryCount + 1, jitterPct))
                              ELSE c1
                    IN Commit(TimerCallbackEnd(c2, operationId))
                 /\ timerRuns' = timerRuns

\* scheduleRetry's timer fires (lines 204-211, and 218-228 when nothing is awaited);
\* the callback is alone in its task. getRetryableOperations() at line 206 is
\* outside the try: when it throws, line 228 is not reached and the map keeps the
\* handle of the timer that fired
TimerFireJittered(operationId, tracked, jitterPct) ==
  /\ ~MicrotaskPending
  /\ IF tracked THEN retryTimeouts[operationId] = "pending"
                ELSE orphanTimers[operationId] > 0
  /\ LET c0 == IF tracked THEN [Ctx EXCEPT !.rt[operationId] = "fired"]
                          ELSE [Ctx EXCEPT !.orph[operationId] = @ - 1]
     IN IF ~isOnline
        THEN /\ Commit(TimerCallbackEnd(c0, operationId))
             /\ timerRuns' = timerRuns
        ELSE IF Throws(c0)
        THEN /\ Commit(c0)
             /\ timerRuns' = timerRuns
        ELSE TimerReplays(c0, operationId, jitterPct)
  /\ UNCHANGED <<nextId, isOnline, isSyncing, passes, now, checkVars>>

TimerFire(operationId, tracked) == TimerFireJittered(operationId, tracked, 0)

\* what the timer callback does with its SyncResult: lines 212-217
TimerHandleResult(c, operation, result) ==
  IF result.success
  THEN clearRetryTimeout(CtxRemove(NoteSuccess(c, operation), operation.id),
                         operation.id)
  ELSE IF Truthy(result.retryAfter) /\ result.retryAfter > 0
       THEN scheduleRetry(NoteFailure(c, operation.id), operation.id, result.retryAfter)
       ELSE NoteFailure(c, operation.id)

\* the response to the fetch a timer callback awaits: lines 211-217 and 228; when
\* removeOfflineOperation throws at line 213, incrementRetryCount throws again in
\* the catch at line 220 and line 228 is not reached
TimerResponseJittered(operation, outcome, jitterPct) ==
  /\ ~MicrotaskPending
  /\ operation \in BagToSet(timerRuns)
  /\ outcome # "ok" => FailuresSoFar < MaxFailures
  /\ LET result == syncCheckInOperation(operation, outcome, jitterPct)
         c0 == IF outcome = "ok" THEN [Ctx EXCEPT !.rec = ApiCheckIn(@, operation.data)]
               ELSE Ctx
     IN Commit(IF result.success /\ Throws(c0) THEN NoteSuccess(c0, operation)
               ELSE TimerCallbackEnd(TimerHandleResult(c0, operation, result),
                                     operation.id))
  /\ timerRuns' = timerRuns (-) SetToBag({operation})
  /\ UNCHANGED <<nextId, isOnline, isSyncing, passes, now, checkVars>>

TimerResponse(operation, outcome) == TimerResponseJittered(operation, outcome, 0)

\* ---------------------------------------------------- lib/error-handler.ts
\* ERROR_CODE_MAPPING: the category of a code, UNKNOWN for a code it does not list
ErrorCategoryOf(code) ==
  CASE code \in {"NETWORK_ERROR", "TIMEOUT_ERROR", "CONNECTION_ERROR"} -> "NETWORK"
    [] code \in {"DATABASE_ERROR", "NOT_FOUND", "DUPLICATE_ENTRY"} -> "DATABASE"
    [] code \in {"VALIDATION_ERROR", "INVALID_INPUT"} -> "VALIDATION"
    [] code = "CAMERA_PERMISSION_DENIED" -> "PERMISSION"
    [] code \in {"CAMERA_NOT_FOUND", "CAMERA_ERROR"} -> "CAMERA"
    [] code \in {"QR_DECODE_ERROR", "INVALID_QR_FORMAT"} -> "QR_SCANNING"
    [] OTHER -> "UNKNOWN"

\* DEFAULT_RETRY_CONFIG.retryableErrors
retryableErrors ==
  {"NETWORK_ERROR", "TIMEOUT_ERROR", "CONNECTION_ERROR", "TEMPORARY_ERROR",
   "RATE_LIMIT_ERROR"}

\* A thrown value: an Error instance (isError, with its name) or a plain object.
\* code "" is an absent code, category "" an absent category.
\* userMessage "" is an absent userMessage.
NoError == [isError |-> FALSE, name |-> "", code |-> "", category |-> "",
            retryable |-> FALSE, message |-> "", userMessage |-> ""]

\* ERROR_CODE_MAPPING: the userMessage of a code, the message given for a code it
\* does not list
UserMessageOf(code, message) ==
  CASE code = "NETWORK_ERROR" ->
         "Network connection issue. Please check your internet connection and try again."
    [] code = "TIMEOUT_ERROR" -> "Request timed out. Please try again."
    [] code = "CONNECTION_ERROR" ->
         "Unable to connect to the server. Please check your connection."
    [] code = "DATABASE_ERROR" -> "Database error occurred. Please try again in a moment."
    [] code = "NOT_FOUND" -> "The requested record was not found."
    [] code = "DUPLICATE_ENTRY" -> "This record already exists."
    [] code = "VALIDATION_ERROR" -> "Please check your input and try again."
    [] code = "INVALID_INPUT" -> "Invalid input provided. Please correct and try again."
    [] code = "CAMERA_PERMISSION_DENIED" ->
         "Camera permission is required to scan QR codes. Please allow camera access."
    [] code = "CAMERA_NOT_FOUND" ->
         "No camera found on this device. Please use manual search instead."
    [] code = "CAMERA_ERROR" ->
         "Camera error occurred. Please try again or use manual search."
    [] code = "QR_DECODE_ERROR" ->
         "Unable to read QR code. Please ensure the code is clear and try again."
    [] code = "INVALID_QR_FORMAT" ->
         "Invalid QR code format. Please scan a valid booking QR code."
    [] OTHER -> message

createError(message, code) ==
  [isError |-> FALSE, name |-> "", code |-> code,
   category |-> IF code # "" THEN ErrorCategoryOf(code) ELSE "UNKNOWN",
   retryable |-> code # "" /\ code \in retryableErrors, message |-> message,
   userMessage |-> UserMessageOf(code, message)]

\* fromError on an Error instance: the error's name becomes the code
fromError(error) ==
  IF error.isError THEN createError(error.message, error.name)
  ELSE createError("An unknown error occurred", "UNKNOWN_ERROR")

\* fromDatabaseError on a DatabaseError {message, code}
fromDatabaseError(dbError) == createError(dbError.message, dbError.code)

getErrorTitle(error) ==
  CASE error.category = "NETWORK" -> "Connection Problem"
    [] error.category = "DATABASE" -> "Data Error"
    [] error.category = "VALIDATION" -> "Input Error"
    [] error.category = "CAMERA" -> "Camera Issue"
    [] error.category = "QR_SCANNING" -> "QR Code Error"
    [] error.category = "PERMISSION" -> "Permission Required"
    [] OTHER -> "Error"

\* ------------------------------------------------------- lib/database.ts
MAX_RETRIES == 3

\* createDatabaseError: the DatabaseError carries the userMessage of the AppError and
\* the code it is given
createDatabaseError(message, code) ==
  [message |-> createError(message, code).userMessage, code |-> code]

\* What the store client gives the closure that awaits it: a row, or an error the
\* closure throws.
StoreOutcomes == {"ok", "netcoded", "typeerror", "notfound"}
NetworkOutcomes == {"netcoded", "typeerror"}
\* what a caller's own operation can do: resolve, or reject with one of these
DirectOutcomes == {"ok", "netcoded", "typeerror", "validation"}

Thrown(outcome) ==
  CASE outcome = "netcoded" ->     \* an object carrying code NETWORK_ERROR
         [NoError EXCEPT !.code = "NETWORK_ERROR", !.message = "Network error"]
    [] outcome = "typeerror" ->    \* the TypeError a failed fetch rejects with
         [NoError EXCEPT !.isError = TRUE, !.name = "TypeError",
                         !.message = "Failed to fetch"]
    [] outcome = "validation" ->   \* an AppError the operation made itself
         createError("Invalid input", "VALIDATION_ERROR")
    [] OTHER ->                    \* PostgREST: no row matches
         [NoError EXCEPT !.code = "PGRST116", !.message = "No rows found"]

\* ---------------------------------------- lib/error-handler.ts: withRetry
\* DEFAULT_RETRY_CONFIG.maxAttempts
DEFAULT_MAX_ATTEMPTS == 3

\* what the operation given to withRetry can do: resolve, or reject with an AppError
\* createError made (NETWORK_ERROR, VALIDATION_ERROR), with an Error instance
\* (named TIMEOUT_ERROR, or a TypeError) or with an object that has a code only
RetryOutcomes == {"ok", "apperror", "validation", "timeoutnamed", "typeerror", "netcoded"}

ThrownToRetry(outcome) ==
  CASE outcome = "apperror" -> createError("Network error", "NETWORK_ERROR")
    [] outcome = "timeoutnamed" ->
         [NoError EXCEPT !.isError = TRUE, !.name = "TIMEOUT_ERROR",
                         !.message = "Timed out"]
    [] OTHER -> Thrown(outcome)

\* withRetry line 239: an Error instance is converted, anything else is taken to be
\* an AppError as it is
LastErrorOf(error) == IF error.isError THEN fromError(error) ELSE error

\* a test that gives up on the last attempt only
RethrowsAt_LastOnly(lastError, attempt, maxAttempts) == attempt = maxAttempts

\* withRetry line 242
RethrowsAt(lastError, attempt, maxAttempts) ==
  ~lastError.retryable \/ attempt = maxAttempts

\* no withRetry call made yet. outs: what the invocations of the operation did, in
\* order; thrown: what withRetry rejected with
NoRetryRun ==
  [at |-> "idle", maxAttempts |-> 0, attempt |-> 0, invocations |-> 0,
   onRetryCalls |-> 0, outs |-> <<>>, thrown |-> NoError]

\* withRetry from the top of its loop: lines 235-237, and 261 when the loop is over
LoopFrom(run) ==
  IF run.attempt <= run.maxAttempts
  THEN [run EXCEPT !.at = "awaiting", !.invocations = @ + 1]
  ELSE [run EXCEPT !.at = "threw"]

\* withRetry(operation, {maxAttempts}, onRetry) called: lines 232-237
withRetryCalled(maxAttempts) ==
  LoopFrom([NoRetryRun EXCEPT !.maxAttempts = maxAttempts])

\* the operation has settled: lines 237-257, to the await of the delay
withRetrySettled(run, outcome) ==
  LET seen == [run EXCEPT !.outs = Append(@, outcome)]
      lastError == LastErrorOf(ThrownToRetry(outcome))
  IN IF outcome = "ok" THEN [seen EXCEPT !.at = "returned"]
     ELSE IF RethrowsAt(lastError, run.attempt, run.maxAttempts)
     THEN [seen EXCEPT !.at = "threw", !.thrown = lastError]
     ELSE [seen EXCEPT !.at = "delaying", !.onRetryCalls = @ + 1]

\* the delay has elapsed: attempt++ and the loop again
withRetryDelayed(run) == LoopFrom([run EXCEPT !.attempt = @ + 1])

\* the closures the wrapper is given: processCheckIn's (checkin), getCheckInStatus's
\* (select), checkInAttendee's (update), and a caller's own (direct)
Closure(kind, req) == [kind |-> kind, req |-> req]

\* ------------------------------------------------ lib/network-resilience.ts
MAX_FAILED_OPERATIONS == 50
SLOW_THRESHOLD == 1000
Latencies == {50, 1500}

\* the classes with their upper edges included
calculateConnectionQuality_Inclusive(latency) ==
  IF latency <= 100 THEN "EXCELLENT"
  ELSE IF latency <= 300 THEN "GOOD"
  ELSE IF latency <= 1000 THEN "FAIR"
  ELSE "POOR"

calculateConnectionQuality(latency) ==
  IF latency < 100 THEN "EXCELLENT"
  ELSE IF latency < 300 THEN "GOOD"
  ELSE IF latency < 1000 THEN "FAIR"
  ELSE "POOR"

\* Array.prototype.indexOf on the functions registered: 0 when there is none
IndexOfListener(li, fn) ==
  IF \E i \in 1..Len(li) : li[i].fn = fn
  THEN CHOOSE i \in 1..Len(li) :
         li[i].fn = fn /\ \A j \in 1..(i - 1) : li[j].fn # fn
  ELSE 0

\* Array.prototype.splice(index, 1)
Splice(li, index) == [i \in 1..(Len(li) - 1) |-> IF i < index THEN li[i] ELSE li[i + 1]]

\* What the functions callers register do when called. Functions 1 and 2 only note
\* what they are told; 3 calls the unsubscribe closure it was returned (a listener
\* for one change); 4 calls the closure returned for function 1; 5 throws.
OnceFn == 3
RemoverFn == 4
ThrowingFn == 5

\* the closure addListener returned for fn, lines 117-122
unsubscribe(li, fn) ==
  LET index == IndexOfListener(li, fn)
  IN IF index > 0 THEN Splice(li, index) ELSE li

\* the list after the body of fn has run; what ThrowingFn throws is caught by
\* notifyListeners
ListenerBody(li, fn) ==
  CASE fn = OnceFn -> unsubscribe(li, OnceFn)
    [] fn = RemoverFn -> unsubscribe(li, 1)
    [] OTHER -> li

\* Array.prototype.forEach from index k: the length is read once, before the first
\* call, and an index the list no longer has when its turn comes is passed over.
\* invoked collects the registrations called, in order.
RECURSIVE forEachListener(_, _, _, _, _, _)
forEachListener(li, k, len, newStatus, newQuality, invoked) ==
  IF k > len \/ k > Len(li) THEN [li |-> li, invoked |-> invoked]
  ELSE LET called == [li EXCEPT ![k] = [@ EXCEPT !.calls = 1 - @, !.status = newStatus,
                                                  !.quality = newQuality]]
       IN forEachListener(ListenerBody(called, li[k].fn), k + 1, len, newStatus,
                          newQuality, Append(invoked, li[k].reg))

\* notifyListeners: the functions in the list are called with the status and the
\* quality; what a listener throws is caught
notifyListeners(li, newStatus, newQuality) ==
  forEachListener(li, 1, Len(li), newStatus, newQuality, <<>>).li

\* a classification that takes a slow answer for none
StatusOfLatency_SlowIsOffline(latency) ==
  IF latency > SLOW_THRESHOLD THEN "OFFLINE" ELSE "ONLINE"

\* line 306
StatusOfLatency(latency) == IF latency > SLOW_THRESHOLD THEN "SLOW" ELSE "ONLINE"

\* a classification that also reads the message, as processCheckIn does
isNetworkError_ByMessage(error) ==
  \/ error.category = "NETWORK"
  \/ error.code # "" /\ error.code \in {"NETWORK_ERROR", "TIMEOUT_ERROR", "CONNECTION_ERROR"}
  \/ error.message \in {"Failed to fetch", "Network request failed"}

isNetworkError(error) ==
  \/ error.category = "NETWORK"
  \/ error.code # "" /\ error.code \in {"NETWORK_ERROR", "TIMEOUT_ERROR", "CONNECTION_ERROR"}

\* Map.delete
MapDelete(fo, id) == SelectSeq(fo, LAMBDA op : op.id # id)

\* no cap on the size
addToRetryQueue_NoCap(fo, operation) ==
  LET i == FindIndex(fo, operation.id)
  IN IF i = 0 THEN Append(fo, operation) ELSE [fo EXCEPT ![i] = operation]

\* addToRetryQueue: at the cap the oldest key goes; Map.set keeps a present key's place
addToRetryQueue(fo, operation) ==
  LET fo1 == IF Len(fo) >= MAX_FAILED_OPERATIONS THEN Tail(fo) ELSE fo
      i == FindIndex(fo1, operation.id)
  IN IF i = 0 THEN Append(fo1, operation) ELSE [fo1 EXCEPT ![i] = operation]

\* the guard that is never taken
FastFail_Never(s) == FALSE

\* executeWithResilience line 146
FastFail(s) == s = "OFFLINE"

\* options.operationId: absent (the call generates an id no other call has) or an
\* id the caller names, which it can name again in a later call
NoOperationId == 0
NamedIds == {101}
OperationIds == {NoOperationId} \cup NamedIds

NoCatch == [operationId |-> NoOperationId, inMap |-> FALSE, retryOnReconnect |-> FALSE,
            status |-> "UNKNOWN", thrown |-> NoError, error |-> NoError]

\* The state a check-in handler works on, threaded through its calls; s is
\* this.status as the handler has left it so far.
Ktx == [fo |-> failedOperations, nid |-> nextOpId, st |-> storage, ct |-> content,
        sid |-> nextId, rec |-> record, lr |-> lastResult, lx |-> lastExec, lc |-> lastCatch,
        ex |-> exhausted, li |-> listeners, pr |-> probing, s |-> status]

\* line 141: the id of the call, a generated one being one more than those registered
CallId(k, operationId) ==
  IF operationId = NoOperationId THEN k.nid + 1 ELSE operationId

\* The FailedOperation objects under an id that the map or the snapshot of a run of
\* processRetryQueue refers to. obj tells the objects under one id apart: the map
\* holds one, a snapshot may hold one the map has replaced since.
LiveObjects(fo, id) ==
  {fo[i].obj : i \in {j \in 1..Len(fo) : fo[j].id = id}} \cup
  UNION {{drains[p].ops[j].obj : j \in {m \in 1..Len(drains[p].ops) :
                                          drains[p].ops[m].id = id}} :
         p \in 1..Len(drains)}

\* a new object: the least number no object under the id bears
NewObject(fo, id) ==
  CHOOSE n \in 0..Cardinality(LiveObjects(fo, id)) :
    /\ n \notin LiveObjects(fo, id)
    /\ \A m \in 0..(n - 1) : m \in LiveObjects(fo, id)

\* a FailedOperation under the id of the call, lastAttempt = new Date()
Register(k, operationId, operation, maxRetries) ==
  [k EXCEPT !.nid = IF operationId = NoOperationId THEN @ + 1 ELSE @,
            !.ex = @ \ {CallId(k, operationId)},
            !.fo = addToRetryQueue(@, [id |-> CallId(k, operationId),
                                       obj |-> NewObject(k.fo, CallId(k, operationId)),
                                       operation |-> operation,
                                       retryCount |-> 0, maxRetries |-> maxRetries,
                                       lastAttempt |-> now])]

\* executeWithResilience, lines 144-171 and, for the error it throws itself, 177-193:
\* up to the call of the operation
WrapperEnter(k, operationId, operation, retryOnReconnect, maxRetries) ==
  IF FastFail(k.s)
  THEN LET offlineError == createError("Operation failed: No network connection",
                                       "NETWORK_ERROR")
           k1 == IF retryOnReconnect THEN Register(k, operationId, operation, maxRetries)
                 ELSE k
           \* catch: offlineError is no Error instance; the status is still OFFLINE
           k2 == IF retryOnReconnect /\ isNetworkError(offlineError) /\ k.s # "OFFLINE"
                 THEN Register(k1, operationId, operation, maxRetries) ELSE k1
       IN [k |-> [k2 EXCEPT !.lx = [status |-> k.s, retryOnReconnect |-> retryOnReconnect,
                                    invoked |-> FALSE, error |-> offlineError]],
           threw |-> TRUE, error |-> offlineError]
  ELSE [k |-> [k EXCEPT !.lx = [status |-> k.s, retryOnReconnect |-> retryOnReconnect,
                                invoked |-> TRUE, error |-> NoError]],
        threw |-> FALSE, error |-> NoError]

\* classification that takes every error for a network error
Registers_Any(retryOnReconnect, appError, s) == retryOnReconnect /\ s # "OFFLINE"

\* executeWithResilience line 181: the failed operation goes to the retry queue
Registers(retryOnReconnect, appError, s) ==
  retryOnReconnect /\ isNetworkError(appError) /\ s # "OFFLINE"

\* executeWithResilience, lines 177-193: the operation has thrown
WrapperCatch(k, operationId, operation, retryOnReconnect, maxRetries, error) ==
  LET appError == IF error.isError THEN fromError(error) ELSE error
      k1 == IF Registers(retryOnReconnect, appError, k.s)
            THEN Register(k, operationId, operation, maxRetries) ELSE k
  IN [k |-> [k1 EXCEPT !.lc = [operationId |-> operationId,
                               inMap |-> CallId(k, operationId) \in IdsOf(k1.fo),
                               retryOnReconnect |-> retryOnReconnect,
                               status |-> k.s, thrown |-> error,
                               error |-> appError]],
      error |-> appError]

\* executeWithResilience, lines 171-176: the operation has resolved
WrapperReturn(k, operationId) == [k EXCEPT !.fo = MapDelete(@, CallId(k, operationId))]

\* ------------------------------------------- lib/database.ts: checkInAttendee
NoDbError == [message |-> "", code |-> ""]
NoPrevious == [attendedAt |-> 0, actualGuests |-> 0]
NoCheckInResult == [success |-> FALSE, error |-> NoDbError, isDuplicateCheckIn |-> FALSE,
                    previousCheckIn |-> NoPrevious, cause |-> "none"]
\* owner: the function whose await the task is; error and result: what a promise
\* that is settled already holds
NoTask == [kind |-> "none", req |-> NoData, raw |-> FALSE, retryOnReconnect |-> FALSE,
           prev |-> NotArrived, operationId |-> NoOperationId, maxRetries |-> 0,
           atCall |-> NotArrived, owner |-> "none", error |-> NoError,
           result |-> NoCheckInResult]

\* a request awaited inside the wrapper, on behalf of checkInAttendee or of a caller;
\* atCall notes what the store held when checkInAttendee was called, for the properties
WrappedTask(kind, req, retryOnReconnect, prev, operationId, maxRetries) ==
  [NoTask EXCEPT !.kind = kind, !.req = req, !.retryOnReconnect = retryOnReconnect,
                 !.prev = prev, !.operationId = operationId, !.maxRetries = maxRetries,
                 !.owner = IF kind = "direct" THEN "caller" ELSE "checkInAttendee"]

\* processCheckIn suspended at line 91 on a promise that is settled already: rejected
\* with error, or resolved with result
SettledTask(request, error, result) ==
  [NoTask EXCEPT !.kind = "settled", !.req = request, !.owner = "processCheckIn",
                 !.error = error, !.result = result]

\* a closure processRetryQueue invokes itself, outside the wrapper
RawTask(operation) ==
  [NoTask EXCEPT !.kind = operation.kind, !.req = operation.req, !.raw = TRUE]

\* Number.isInteger on a number given as twice its value
IsInteger(n2) == n2 % 2 = 0

\* the code the catch blocks of getCheckInStatus and checkInAttendee report
CatchCode(error) ==
  IF error.code = "PGRST116" THEN "NOT_FOUND"
  ELSE IF error.code # "" THEN error.code
  ELSE "DATABASE_ERROR"

\* checkInAttendee has returned; cause notes what stopped it, for the properties
Returned(k, success, message, code, prev, cause) ==
  [k |-> k, done |-> TRUE, task |-> NoTask,
   result |-> [success |-> success,
               error |-> IF success THEN NoDbError ELSE createDatabaseError(message, code),
               isDuplicateCheckIn |-> success /\ prev.isAttended,
               previousCheckIn |-> IF success /\ prev.isAttended
                                   THEN [attendedAt |-> prev.attendedAt,
                                         actualGuests |-> prev.actualGuests]
                                   ELSE NoPrevious,
               cause |-> cause]]

\* checkInAttendee is suspended on a store request
Awaiting(k, task) == [k |-> k, done |-> FALSE, task |-> task, result |-> NoCheckInResult]

\* getCheckInStatus has returned
StatusReturned(k) == [k |-> k, done |-> TRUE, task |-> NoTask, result |-> NoCheckInResult]

\* getCheckInStatus lines 224-245 called on its own: from the call to the await on
\* the select, or to the catch of lines 252-276 when the wrapper threw at once
getCheckInStatus(k, req) ==
  LET e == WrapperEnter(k, NoOperationId, Closure("select", req), TRUE, MAX_RETRIES)
  IN IF e.threw THEN StatusReturned(e.k)
     ELSE Awaiting(e.k, [WrappedTask("select", req, TRUE, NotArrived, NoOperationId,
                                     MAX_RETRIES)
                           EXCEPT !.owner = "getCheckInStatus"])

\* validateCheckIn lines 169-186: the wrapper around getCheckInStatus, maxRetries 2
validateCheckIn(k, req) ==
  LET e == WrapperEnter(k, NoOperationId, Closure("status", req), TRUE, 2)
  IN IF e.threw THEN StatusReturned(e.k) ELSE getCheckInStatus(e.k, req)

\* the select of a getCheckInStatus call has answered: lines 247-276
StatusAnswered(k, task, outcome) ==
  IF outcome = "ok" THEN StatusReturned(k)
  ELSE StatusReturned(WrapperCatch(k, NoOperationId, Closure("select", task.req), TRUE,
                                   MAX_RETRIES, Thrown(outcome)).k)

\* checkInAttendee lines 284-320 with getCheckInStatus lines 224-245 and 252-276:
\* from the call to the await on the select. guests2 is request.actualGuests given
\* as twice its value, the request holding its whole part
checkInAttendeeOf(k, request, guests2) ==
  IF guests2 < 0
  THEN Returned(k, FALSE, "Guest count must be a positive number", "VALIDATION_ERROR",
                NotArrived, "none")
  ELSE IF ~IsInteger(guests2)
  THEN Returned(k, FALSE, "Guest count must be a whole number", "VALIDATION_ERROR",
                NotArrived, "none")
  ELSE IF guests2 > 2 * 999
  THEN Returned(k, FALSE, "Guest count is too high", "VALIDATION_ERROR", NotArrived, "none")
  ELSE LET e == WrapperEnter(k, NoOperationId, Closure("select", request), TRUE,
                             MAX_RETRIES)
       IN IF e.threw
          THEN Returned(e.k, FALSE, "Failed to check booking status", CatchCode(e.error),
                        NotArrived, "offline")
          ELSE Awaiting(e.k, [WrappedTask("select", request, TRUE, NotArrived,
                                          NoOperationId, MAX_RETRIES)
                                EXCEPT !.atCall = RowOf(k.rec, request.bookingId)])

\* checkInAttendee on a request whose guest count is a whole number
checkInAttendee(k, request) == checkInAttendeeOf(k, request, 2 * request.actualGuests)

CauseOf(outcome) == IF outcome \in NetworkOutcomes THEN "network" ELSE "store"

\* the select has answered: getCheckInStatus lines 247-276, checkInAttendee 322-358
SelectAnswered(k, task, outcome) ==
  IF outcome = "ok"
  THEN LET booking == k.rec[task.req.bookingId]
           e == WrapperEnter(k, NoOperationId, Closure("update", task.req), TRUE,
                             MAX_RETRIES)
       IN IF e.threw
          THEN Returned(e.k, FALSE, "Failed to check in attendee", CatchCode(e.error),
                        NotArrived, "offline")
          ELSE Awaiting(e.k, [WrappedTask("update", task.req, TRUE, booking,
                                          NoOperationId, MAX_RETRIES)
                                EXCEPT !.atCall = task.atCall, !.owner = task.owner])
  ELSE LET c == WrapperCatch(k, NoOperationId, Closure("select", task.req), TRUE,
                             MAX_RETRIES, Thrown(outcome))
       IN Returned(c.k, FALSE, "Failed to check booking status", CatchCode(c.error),
                   NotArrived, CauseOf(outcome))

\* the update has answered: checkInAttendee lines 360-395
UpdateAnswered(k, task, outcome) ==
  IF outcome = "ok"
  THEN Returned([k EXCEPT !.rec = StoreUpdate(@, task.req)], TRUE, "", "", task.prev, "none")
  ELSE LET c == WrapperCatch(k, NoOperationId, Closure("update", task.req), TRUE,
                             MAX_RETRIES, Thrown(outcome))
       IN Returned(c.k, FALSE, "Failed to check in attendee", CatchCode(c.error),
                   NotArrived, CauseOf(outcome))

Answered(k, task, outcome) ==
  IF task.owner = "getCheckInStatus" THEN StatusAnswered(k, task, outcome)
  ELSE IF task.kind = "select" THEN SelectAnswered(k, task, outcome)
  ELSE UpdateAnswered(k, task, outcome)

\* the answers the store can give to a request: a row only for a booking it holds,
\* no-row only for one it does not hold
CanAnswer(task, outcome) ==
  /\ task.kind # "settled"
  /\ outcome \in NetworkOutcomes => storeFailures < MaxStoreFailures
  /\ task.kind = "direct" => outcome \in DirectOutcomes
  /\ task.kind # "direct" =>
       /\ outcome \in StoreOutcomes
       /\ outcome = "ok" => task.req.bookingId \in Bookings
       /\ outcome = "notfound" => task.req.bookingId \notin Bookings

\* ------------------------------------------------- lib/checkin-service.ts
\* processCheckIn lines 101-120: the CheckInProcessingResult for a CheckInResult.
\* request notes the CheckInRequest of the call, for the properties.
ProcessingResult(request, result) ==
  [request |-> request, success |-> result.success,
   error |-> IF result.success THEN NoError
             ELSE IF result.error # NoDbError THEN fromDatabaseError(result.error)
             ELSE createError("Check-in failed", "UNKNOWN_ERROR"),
   isDuplicateCheckIn |-> result.isDuplicateCheckIn,
   previousCheckIn |-> result.previousCheckIn,
   retryCount |-> 0, isOffline |-> FALSE, offlineOperationId |-> 0,
   cause |-> result.cause]

\* processCheckIn lines 53-77: the result for an input it rejects
RejectedInput(message) ==
  [request |-> NoData,
   success |-> FALSE, error |-> createError(message, "VALIDATION_ERROR"),
   isDuplicateCheckIn |-> FALSE, previousCheckIn |-> NoPrevious,
   retryCount |-> 0, isOffline |-> FALSE, offlineOperationId |-> 0, cause |-> "none"]

\* processCheckIn line 129: is the caught error a network error
\* (String.includes on the message of an Error instance)
IncludesNetWord(message) ==
  message \in {"Failed to fetch", "Operation failed: No network connection"}

IsNetworkErrorForQueue(error, appError) ==
  \/ appError.code = "NETWORK_ERROR"
  \/ appError.code = "CONNECTION_ERROR"
  \/ error.isError /\ IncludesNetWord(error.message)

\* formatCheckInResult: title and type
formatCheckInResult(result) ==
  IF ~result.success
  THEN [title |-> IF result.error # NoError THEN getErrorTitle(result.error)
                  ELSE "Check-in Failed",
        type |-> "error"]
  ELSE IF result.isOffline
  THEN [title |-> "Saved for Offline Sync", type |-> "warning"]
  ELSE [title |-> IF result.isDuplicateCheckIn THEN "Check-in Updated"
                  ELSE "Check-in Successful",
        type |-> IF result.isDuplicateCheckIn THEN "warning" ELSE "success"]

\* --------------------------------- lib/network-resilience.ts: processRetryQueue
\* Array.prototype.sort by lastAttempt, stable
\* the place of ops[i] after the sort: behind every entry attempted earlier, and
\* behind the entries attempted at the same time that stood before it
RankByLastAttempt(ops, i) ==
  1 + Cardinality({j \in 1..Len(ops) :
                     \/ ops[j].lastAttempt < ops[i].lastAttempt
                     \/ ops[j].lastAttempt = ops[i].lastAttempt /\ j < i})

SortByLastAttempt(ops) ==
  IF ops = <<>> THEN <<>>
  ELSE [r \in 1..Len(ops) |-> ops[CHOOSE i \in 1..Len(ops) : RankByLastAttempt(ops, i) = r]]

\* lines 382-384
operationsToRetry(fo) ==
  SortByLastAttempt(SelectSeq(fo, LAMBDA op : op.retryCount < op.maxRetries))

\* lines 390-391
RetrySucceeded(k, id) == [k EXCEPT !.fo = MapDelete(@, id)]

\* is b the object a
SameObject(a, b) == a.id = b.id /\ a.obj = b.obj

\* lines 395-397 as every holder of the object sees them: retryCount++ and
\* lastAttempt = new Date() on the object of the snapshot
Touched(ops, operation) ==
  [i \in 1..Len(ops) |->
     IF SameObject(ops[i], operation)
     THEN [ops[i] EXCEPT !.retryCount = operation.retryCount + 1, !.lastAttempt = now]
     ELSE ops[i]]

\* lines 395-404: the retry is counted on the object of the snapshot, which the map
\* holds unless the id was registered again or deleted since; the delete on
\* exhaustion goes by the id, whatever object the map holds under it
RetryFailed(k, operation) ==
  LET k1 == [k EXCEPT !.fo = Touched(@, operation)]
  IN IF operation.retryCount + 1 >= operation.maxRetries
     THEN [k1 EXCEPT !.fo = MapDelete(@, operation.id),
                     !.ex = IF operation.id \in IdsOf(k1.fo) THEN @ \cup {operation.id}
                            ELSE @]
     ELSE k1

\* The loop of processRetryQueue from position i to its next await on a request, or
\* to its end (idx past the snapshot).
\* the closure of a check-in or of a status read is invoked
Invoke(k, operation) ==
  IF operation.kind = "checkin" THEN checkInAttendee(k, operation.req)
  ELSE getCheckInStatus(k, operation.req)

RECURSIVE RunRetryQueue(_, _, _)
\* lines 389-392 when the closure has returned at once, the await of line 388 when
\* it is suspended on a request
Invoked(r, ops, i) ==
  IF r.done THEN RunRetryQueue(RetrySucceeded(r.k, ops[i].id), ops, i + 1)
  ELSE [k |-> r.k, idx |-> i, task |-> r.task]

RunRetryQueue(k, ops, i) ==
  IF i > Len(ops) THEN [k |-> k, idx |-> i, task |-> NoTask]
  ELSE IF ops[i].operation.kind \in {"checkin", "status"}
  THEN Invoked(Invoke(k, ops[i].operation), ops, i)
  ELSE [k |-> k, idx |-> i, task |-> RawTask(ops[i].operation)]

CommitK(k) ==
  /\ failedOperations' = k.fo
  /\ nextOpId' = k.nid
  /\ storage' = k.st
  /\ content' = k.ct
  /\ nextId' = k.sid
  /\ record' = k.rec
  /\ lastResult' = k.lr
  /\ lastExec' = k.lx
  /\ lastCatch' = k.lc
  /\ exhausted' = k.ex
  /\ listeners' = k.li
  /\ probing' = k.pr
  /\ UNCHANGED <<unsubscribes, monitoring>>

\* a call that returns at once whatever the map holds
processRetryQueue_Never(k, newStatus) ==
  /\ CommitK(k)
  /\ drains' = drains

\* processRetryQueue() called: lines 378-388
processRetryQueue(k, newStatus) ==
  IF newStatus = "OFFLINE" \/ Len(k.fo) = 0
  THEN /\ CommitK(k)
       /\ drains' = drains
  ELSE LET ops == operationsToRetry(k.fo)
           r == RunRetryQueue(k, ops, 1)
       IN /\ CommitK(r.k)
          /\ drains' = IF r.idx > Len(ops) THEN drains
                       ELSE Append(drains, [ops |-> ops, idx |-> r.idx, task |-> r.task])

\* the retry interval timer fires (lines 213-216), whatever runs of processRetryQueue
\* are in flight; the runs in flight at once are capped at MaxDrains
RetryInterval ==
  /\ ~MicrotaskPending
  /\ status # "OFFLINE" /\ Len(failedOperations) > 0
  /\ Len(drains) < MaxDrains
  /\ processRetryQueue(Ktx, status)
  /\ UNCHANGED <<status, quality, tasks, execCalls, storeFailures, now, syncOnlyVars,
                 histVars>>

\* checkNetworkStatus lines 304-320: the fetch of a probe has answered ok after
\* latency ms; the run of processRetryQueue it starts joins those in flight, which
\* are capped at MaxDrains
HealthOkOf(k, latency) ==
  /\ ~MicrotaskPending
  /\ status = "OFFLINE" /\ Len(failedOperations) > 0 => Len(drains) < MaxDrains
  /\ status' = StatusOfLatency(latency)
  /\ quality' = calculateConnectionQuality(latency)
  /\ LET k0 == [k EXCEPT !.s = StatusOfLatency(latency)]   \* line 306
         k1 == IF status # StatusOfLatency(latency)
               THEN [k0 EXCEPT !.li = notifyListeners(@, StatusOfLatency(latency),
                                                      calculateConnectionQuality(latency))]
               ELSE k0
     IN IF status # StatusOfLatency(latency) /\ status = "OFFLINE"
        THEN processRetryQueue(k1, StatusOfLatency(latency))
        ELSE CommitK(k1) /\ drains' = drains
  /\ UNCHANGED <<tasks, execCalls, storeFailures, now, syncOnlyVars, histVars>>

\* a probe has answered ok, where the probes in flight are not counted
HealthOk(latency) == HealthOkOf(Ktx, latency)

\* setOfflineStatus, lines 333-341, on the listeners
setOfflineStatus(li) ==
  IF status # "OFFLINE" THEN notifyListeners(li, "OFFLINE", "UNKNOWN") ELSE li

\* setOfflineStatus: the probe failed, or the window's 'offline' event (handleOffline)
SetOfflineStatus ==
  /\ ~MicrotaskPending
  /\ status' = "OFFLINE"
  /\ quality' = "UNKNOWN"
  /\ listeners' = setOfflineStatus(listeners)
  /\ UNCHANGED <<unsubscribes, monitoring, probing, failedOperations, nextOpId, tasks, drains, lastResult, lastExec,
                 lastCatch, exhausted, execCalls, storeFailures, syncVars, histVars>>

\* the answer to the request a processRetryQueue run awaits
RetryAnswered(p, outcome) ==
  /\ ~MicrotaskPending
  /\ p \in 1..Len(drains)
  /\ CanAnswer(drains[p].task, outcome)
  /\ LET drain == drains[p]
         id == drain.ops[drain.idx].id
         step == IF drain.task.raw
                 THEN [k |-> IF outcome = "ok" /\ drain.task.kind = "update"
                             THEN [Ktx EXCEPT !.rec = StoreUpdate(@, drain.task.req)]
                             ELSE Ktx,
                       done |-> TRUE, task |-> NoTask, result |-> NoCheckInResult]
                 ELSE Answered(Ktx, drain.task, outcome)
         \* a raw closure that throws fails the retry; checkInAttendee and
         \* getCheckInStatus never throw
         failed == step.done /\ drain.task.raw /\ outcome # "ok"
         k1 == IF ~step.done THEN step.k
               ELSE IF failed THEN RetryFailed(step.k, drain.ops[drain.idx])
               ELSE RetrySucceeded(step.k, id)
         r == IF step.done THEN RunRetryQueue(k1, drain.ops, drain.idx + 1)
              ELSE [k |-> k1, idx |-> drain.idx, task |-> step.task]
         \* the snapshots of all runs hold the object the catch has changed
         seen == IF failed
                 THEN [q \in 1..Len(drains) |->
                         [drains[q] EXCEPT !.ops = Touched(@, drain.ops[drain.idx])]]
                 ELSE drains
     IN /\ CommitK(r.k)
        /\ drains' = IF r.idx > Len(drain.ops) THEN RemoveAt(seen, p)
                     ELSE [seen EXCEPT ![p].idx = r.idx, ![p].task = r.task]
  /\ storeFailures' = IF outcome \in NetworkOutcomes THEN storeFailures + 1
                      ELSE storeFailures
  /\ UNCHANGED <<status, quality, tasks, execCalls, now, syncOnlyVars, histVars>>

\* ------------------------------------ lib/checkin-service.ts: processCheckIn
BookingInputs == {0, 1, 2}            \* 0 is no id, 2 an id the store does not hold
GuestInputs2 == {0 - 2, 3, 4, 2000}   \* twice the guest count: -1, 1.5, 2, 1000

NoProcessingResult ==
  [request |-> NoData, success |-> FALSE, error |-> NoError,
   isDuplicateCheckIn |-> FALSE, previousCheckIn |-> NoPrevious, retryCount |-> 0,
   isOffline |-> FALSE, offlineOperationId |-> 0, cause |-> "none"]

\* what lastResult holds when the promise of the call was rejected: with the
\* TypeError of a push on what is no list
RejectedCall(request) ==
  [NoProcessingResult EXCEPT !.request = request, !.cause = "threw",
                             !.error = [NoError EXCEPT !.isError = TRUE,
                                                       !.name = "TypeError"]]

\* processCheckIn lines 121-161: the wrapper around checkInAttendee has thrown.
\* Line 137 stores the check-in only where there is a window; storeOfflineOperation
\* generates the id, reads the key and throws out of the catch when it holds no list.
\* writeThrows: localStorage.setItem throws in saveOfflineOperations (quota, private
\* mode), which catches it
ProcessCheckInCatchWith(k, request, error, writeThrows) ==
  LET appError == IF error.isError THEN fromError(error) ELSE error
      failed == [NoProcessingResult EXCEPT !.request = request, !.error = appError,
                                           !.cause = "offline"]
      offlineOperationId == k.sid + 1
      got == ReadKey(k.ct, k.st, "getItem" \in throwing)
      left == SaveKey(k.ct, k.st,
                      storeOfflineOperation(got.list, offlineOperationId, "checkin",
                                            request, request.timestamp),
                      writeThrows \/ "setItem" \in throwing)
  IN IF IsNetworkErrorForQueue(error, appError) /\ hasWindow
     THEN IF ~got.isList
          THEN [k EXCEPT !.sid = offlineOperationId, !.lr = RejectedCall(request)]
          ELSE [k EXCEPT !.st = left.st, !.ct = left.content,
                         !.sid = offlineOperationId,
                         !.lr = [failed EXCEPT !.isOffline = TRUE,
                                               !.offlineOperationId = offlineOperationId]]
     ELSE [k EXCEPT !.lr = failed]

\* the same where the write goes through
ProcessCheckInCatch(k, request, error) ==
  ProcessCheckInCatchWith(k, request, error, FALSE)

\* processCheckIn(bookingId, actualGuests), the guest count given as twice its value:
\* from the call to the await of line 91, where the call returns its promise to the
\* caller; what it awaits is a store request, or a promise the wrapper or
\* checkInAttendee has settled already
ProcessCheckIn(bookingId, guests2) ==
  /\ IF bookingId = 0 \/ bookingId <= 0
     THEN /\ CommitK([Ktx EXCEPT !.lr = RejectedInput("Invalid booking ID")])
          /\ UNCHANGED <<tasks, now>>
     ELSE IF guests2 < 0 \/ ~IsInteger(guests2)
     THEN /\ CommitK([Ktx EXCEPT !.lr = RejectedInput("Invalid guest count")])
          /\ UNCHANGED <<tasks, now>>
     ELSE /\ now <= MaxCalls
          /\ now' = now + 1
          /\ LET request == [bookingId |-> bookingId, actualGuests |-> guests2 \div 2,
                             timestamp |-> now]
                 e == WrapperEnter(Ktx, NoOperationId, Closure("checkin", request),
                                   TRUE, 3)
                 r == checkInAttendee(e.k, request)
             IN IF e.threw
                THEN /\ CommitK(e.k)
                     /\ tasks' = tasks (+) SetToBag({SettledTask(request, e.error,
                                                              NoCheckInResult)})
                ELSE IF r.done
                THEN /\ CommitK(r.k)
                     /\ tasks' = tasks (+) SetToBag({SettledTask(request, NoError, r.result)})
                ELSE /\ CommitK(r.k)
                     /\ tasks' = tasks (+) SetToBag({[r.task EXCEPT !.owner = "processCheckIn"]})
  /\ UNCHANGED <<status, quality, drains, execCalls, storeFailures, syncOnlyVars, histVars>>

\* the microtask that resumes processCheckIn after its await on a settled promise:
\* lines 101-118 when it was resolved, the catch of lines 120-162 when it was
\* rejected; Date.now() is what it was at the call
ProcessCheckInResumesWith(task, writeThrows) ==
  /\ task \in BagToSet(tasks)
  /\ task.kind = "settled"
  /\ CommitK(IF task.error # NoError
             THEN ProcessCheckInCatchWith(Ktx, task.req, task.error, writeThrows)
             ELSE [Ktx EXCEPT !.lr = ProcessingResult(task.req, task.result)])
  /\ tasks' = tasks (-) SetToBag({task})
  /\ UNCHANGED <<status, quality, drains, execCalls, storeFailures, now, syncOnlyVars,
                 histVars>>

\* the same where the storage takes the write
ProcessCheckInResumes(task) == ProcessCheckInResumesWith(task, FALSE)

\* getCheckInStatus(bookingId) called on its own
GetCheckInStatus(bookingId) ==
  /\ now <= MaxCalls
  /\ now' = now + 1
  /\ LET r == getCheckInStatus(Ktx, [NoData EXCEPT !.bookingId = bookingId])
     IN /\ CommitK(r.k)
        /\ tasks' = IF r.done THEN tasks ELSE tasks (+) SetToBag({r.task})
  /\ UNCHANGED <<status, quality, drains, execCalls, storeFailures, syncOnlyVars, histVars>>

\* validateCheckIn(bookingId)
ValidateCheckIn(bookingId) ==
  /\ now <= MaxCalls
  /\ now' = now + 1
  /\ LET r == validateCheckIn(Ktx, [NoData EXCEPT !.bookingId = bookingId])
     IN /\ CommitK(r.k)
        /\ tasks' = IF r.done THEN tasks ELSE tasks (+) SetToBag({r.task})
  /\ UNCHANGED <<status, quality, drains, execCalls, storeFailures, syncOnlyVars, histVars>>

\* checkInAttendee(request) called on its own, the guest count given as twice its
\* value
CheckInAttendee(bookingId, guests2) ==
  /\ now <= MaxCalls
  /\ now' = now + 1
  /\ LET r == checkInAttendeeOf(Ktx, [bookingId |-> bookingId,
                                       actualGuests |-> guests2 \div 2,
                                       timestamp |-> now], guests2)
     IN /\ CommitK(r.k)
        /\ tasks' = IF r.done THEN tasks ELSE tasks (+) SetToBag({r.task})
  /\ UNCHANGED <<status, quality, drains, execCalls, storeFailures, syncOnlyVars, histVars>>

\* clearFailedOperations(), lines 259-261: the map emptied, whatever runs of
\* processRetryQueue hold in their lists
ClearFailedOperations ==
  /\ failedOperations' = <<>>
  /\ UNCHANGED <<status, quality, listeners, unsubscribes, monitoring, probing, nextOpId,
                 tasks, drains, lastResult, lastExec, lastCatch, exhausted, execCalls,
                 storeFailures, syncVars, histVars>>

\* a caller's own operation, told from others by the number of its call
DirectOperation(n) == Closure("direct", [NoData EXCEPT !.timestamp = n])

\* options.maxRetries of a direct call, as low as the tests of the retry queue set it
MaxRetriesInputs == {1}

\* executeWithResilience(operation, {retryOnReconnect, maxRetries, operationId})
\* called directly, for at most limit calls in a run
ExecuteDirectWithin(limit, operationId, retryOnReconnect, maxRetries) ==
  /\ execCalls < limit
  /\ execCalls' = execCalls + 1
  /\ LET operation == DirectOperation(execCalls + 1)
         e == WrapperEnter(Ktx, operationId, operation, retryOnReconnect, maxRetries)
     IN /\ CommitK(e.k)
        /\ tasks' = IF e.threw THEN tasks
                    ELSE tasks (+) SetToBag({WrappedTask("direct", operation.req,
                                                         retryOnReconnect, NotArrived,
                                                         operationId, maxRetries)})
  /\ UNCHANGED <<status, quality, drains, storeFailures, now, syncOnlyVars, histVars>>

ExecuteDirect(operationId, retryOnReconnect, maxRetries) ==
  ExecuteDirectWithin(MaxExec, operationId, retryOnReconnect, maxRetries)

\* the answer to the request a call awaits
CallAnswered(task, outcome) ==
  /\ ~MicrotaskPending
  /\ task \in BagToSet(tasks)
  /\ CanAnswer(task, outcome)
  /\ IF task.kind = "direct"
     THEN /\ CommitK(IF outcome = "ok" THEN WrapperReturn(Ktx, task.operationId)
                     ELSE WrapperCatch(Ktx, task.operationId, Closure("direct", task.req),
                                       task.retryOnReconnect, task.maxRetries,
                                       Thrown(outcome)).k)
          /\ tasks' = tasks (-) SetToBag({task})
     ELSE LET step == Answered(Ktx, task, outcome)
          IN IF step.done
             THEN /\ CommitK(IF task.owner = "processCheckIn"
                             THEN [step.k EXCEPT
                                     !.lr = ProcessingResult(task.req, step.result)]
                             ELSE step.k)
                  /\ tasks' = tasks (-) SetToBag({task})
             ELSE /\ CommitK(step.k)
                  /\ tasks' = (tasks (-) SetToBag({task})) (+) SetToBag({step.task})
  /\ storeFailures' = IF outcome \in NetworkOutcomes THEN storeFailures + 1
                      ELSE storeFailures
  /\ UNCHANGED <<status, quality, drains, execCalls, now, syncOnlyVars, histVars>>

\* what a caller's operation may reject with: Error instances under several names
\* and messages, AppErrors made by createError, and plain objects
NativeError(name, message) ==
  [NoError EXCEPT !.isError = TRUE, !.name = name, !.message = message]

ThrownErrors ==
  {NativeError("TypeError", "Failed to fetch"),
   NativeError("Error", "Network request failed"),
   NativeError("TIMEOUT_ERROR", "Timed out"),
   NativeError("CONNECTION_ERROR", "Invalid input"),
   createError("Invalid input", "VALIDATION_ERROR"),
   [NoError EXCEPT !.category = "NETWORK", !.message = "No route"],
   Thrown("netcoded")}

\* the operation of a direct call rejects with error
CallRejected(task, error) ==
  /\ ~MicrotaskPending
  /\ task \in BagToSet(tasks)
  /\ task.kind = "direct"
  /\ CommitK(WrapperCatch(Ktx, task.operationId, Closure("direct", task.req),
                          task.retryOnReconnect, task.maxRetries, error).k)
  /\ tasks' = tasks (-) SetToBag({task})
  /\ UNCHANGED <<status, quality, drains, execCalls, storeFailures, now, syncOnlyVars,
                 histVars>>

\* what an earlier session can have left under the key: nothing, or up to MaxQueued
\* check-ins it persisted, each after 0 to maxRetries - 1 failed replays
\* (incrementRetryCount removes an operation at maxRetries), under ids no later
\* operation is given
PriorQueues ==
  {<<>>} \cup
  UNION {{[i \in 1..n |-> [ops[i] EXCEPT !.id = i]] :
            ops \in [1..n -> [id : {0}, type : {"checkin"}, data : Payloads,
                              timestamp : {0}, retryCount : 0..(MAX_RETRY_COUNT - 1),
                              maxRetries : {MAX_RETRY_COUNT}]]} : n \in 1..MaxQueued}

\* The sync service and the durable queue when the module is loaded: in a browser,
\* on whatever the key holds, or where there is no window (and no localStorage).
InitSync ==
  /\ hasWindow \in BOOLEAN
  /\ throwing = {}
  /\ content \in (IF hasWindow THEN ContentKinds ELSE {"absent"})
  /\ storage \in (IF content = "list" THEN PriorQueues ELSE {<<>>})
  /\ nextId = Len(storage)
  /\ isSyncing = FALSE
  /\ retryTimeouts = [i \in OpIds |-> "none"]
  /\ orphanTimers = [i \in OpIds |-> 0]
  /\ retryDelays = [i \in OpIds |-> 0]
  /\ passes = <<>>
  /\ timerRuns = EmptyBag
  /\ record = [b \in Bookings |-> NotArrived]
  /\ now = 1
  /\ failedReplays = [i \in OpIds |-> 0]
  /\ succeeded = {}
  /\ evicted = {}
  /\ cleared = {}
  /\ replayedTwice = {}
  /\ firstReplay = [i \in OpIds |-> NotArrived]
  /\ lastStats = getSyncStats(<<>>)
  /\ queueCall = NoQueueCall
  /\ retryRun = NoRetryRun

\* the monitor before its constructor starts it
NotMonitoring ==
  [isMonitoring |-> FALSE, monitoringInterval |-> "undefined",
   retryIntervalTimer |-> "undefined", probeTimers |-> 0, drainTimers |-> 0,
   onlineListeners |-> 0, offlineListeners |-> 0]

\* a start that does not look at isMonitoring
startMonitoring_Unguarded(m) ==
  [m EXCEPT !.isMonitoring = TRUE,
            !.monitoringInterval = "set", !.probeTimers = @ + 1,
            !.retryIntervalTimer = "set", !.drainTimers = @ + 1,
            !.onlineListeners = IF hasWindow THEN 1 ELSE @,
            !.offlineListeners = IF hasWindow THEN 1 ELSE @]

\* startMonitoring, lines 199-222, but for its call of checkNetworkStatus: each
\* setInterval makes a timer and overwrites the handle; where there is a window the
\* two listeners are added to it, and addEventListener with a listener the window
\* already has adds nothing
startMonitoring(m) ==
  IF m.isMonitoring THEN m
  ELSE [m EXCEPT !.isMonitoring = TRUE,
                 !.monitoringInterval = "set", !.probeTimers = @ + 1,
                 !.retryIntervalTimer = "set", !.drainTimers = @ + 1,
                 !.onlineListeners = IF hasWindow THEN 1 ELSE @,
                 !.offlineListeners = IF hasWindow THEN 1 ELSE @]

\* stopMonitoring, lines 227-247: clearInterval ends the timer of the handle, and
\* where there is a window the two listeners are removed from it
stopMonitoring(m) ==
  IF ~m.isMonitoring THEN m
  ELSE [m EXCEPT !.isMonitoring = FALSE,
                 !.probeTimers = IF m.monitoringInterval = "set" THEN @ - 1 ELSE @,
                 !.monitoringInterval = "undefined",
                 !.drainTimers = IF m.retryIntervalTimer = "set" THEN @ - 1 ELSE @,
                 !.retryIntervalTimer = "undefined",
                 !.onlineListeners = IF hasWindow THEN 0 ELSE @,
                 !.offlineListeners = IF hasWindow THEN 0 ELSE @]

\* the monitor as constructed, with inFlight probes awaiting their fetch
InitCheckProbing(inFlight) ==
  /\ quality = "UNKNOWN"
  /\ listeners = <<>>
  /\ unsubscribes = <<>>
  /\ monitoring = startMonitoring(NotMonitoring)
  /\ probing = inFlight
  /\ failedOperations = <<>>
  /\ nextOpId = 0
  /\ tasks = EmptyBag
  /\ drains = <<>>
  /\ lastResult = NoProcessingResult
  /\ lastExec = [status |-> "UNKNOWN", retryOnReconnect |-> FALSE, invoked |-> FALSE,
                 error |-> NoError]
  /\ lastCatch = NoCatch
  /\ exhausted = {}
  /\ execCalls = 0
  /\ storeFailures = 0

\* where the probes are answered by HealthOk and SetOfflineStatus, none is counted
InitCheck == InitCheckProbing(0)

\* navigator.onLine when the modules are loaded ("undefined": no navigator, or one
\* without onLine). The sync service reads it where there is a window (an undefined
\* value is falsy) and keeps isOnline = true without one (offline-sync.ts 29, 34-40);
\* the monitor takes its status from it where the navigator has it and keeps UNKNOWN
\* otherwise, whether there is a window or not (network-resilience.ts 280-284)
InitOnline ==
  \E onLine \in {"true", "false", "undefined"} :
    /\ isOnline = (IF hasWindow THEN onLine = "true" ELSE TRUE)
    /\ status = (IF onLine = "undefined" THEN "UNKNOWN"
                ELSE IF onLine = "true" THEN "ONLINE" ELSE "OFFLINE")

Init ==
  /\ InitSync
  /\ InitCheck
  /\ InitOnline

\* a session, with or without a window, whose key holds nothing yet
Fresh == Init /\ content = "absent"

\* a session whose key holds nothing, or the list an earlier session left
Resumed == Init /\ content \in {"absent", "list"}

\* the sync orchestrator over the durable queue
Next ==
  \/ TriggerSync
  \/ OnlineEvent
  \/ OfflineEvent
  \/ \E data \in Payloads : QueueOperation("checkin", data)
  \/ QueueOperation("search", NoData)
  \/ ClearAllOperations
  \/ \E p \in 1..Len(passes), outcome \in FetchOutcomes : SyncResponse(p, outcome)
  \/ \E p \in 1..Len(passes) : SyncResumes(p)
  \/ \E operationId \in OpIds, tracked \in BOOLEAN : TimerFire(operationId, tracked)
  \/ \E operation \in BagToSet(timerRuns), outcome \in FetchOutcomes :
       TimerResponse(operation, outcome)

Spec == Resumed /\ [][Next]_vars

\* the interval timer and the probe where each run of processRetryQueue ends before
\* the next begins; the runs overlap in SpecRetryQueue and SpecDrain
SerialRetryInterval ==
  /\ drains = <<>>
  /\ RetryInterval

SerialHealthOk(latency) ==
  /\ status = "OFFLINE" /\ Len(failedOperations) > 0 => drains = <<>>
  /\ HealthOk(latency)

\* the check-in service over the resilient-execution wrapper
NextCheckIn ==
  \/ \E bookingId \in BookingInputs, guests2 \in GuestInputs2 :
       ProcessCheckIn(bookingId, guests2)
  \/ \E task \in BagToSet(tasks) : ProcessCheckInResumes(task)
  \/ \E task \in BagToSet(tasks), outcome \in StoreOutcomes : CallAnswered(task, outcome)
  \/ SerialRetryInterval
  \/ \E latency \in Latencies : SerialHealthOk(latency)
  \/ SetOfflineStatus
  \/ \E p \in 1..Len(drains), outcome \in StoreOutcomes : RetryAnswered(p, outcome)

SpecCheckIn == Fresh /\ [][NextCheckIn]_vars

\* the resilient-execution wrapper under its callers' own operations
NextWrapper ==
  \/ \E operationId \in OperationIds, retryOnReconnect \in BOOLEAN,
        maxRetries \in MaxRetriesInputs :
       ExecuteDirect(operationId, retryOnReconnect, maxRetries)
  \/ \E task \in BagToSet(tasks), outcome \in DirectOutcomes : CallAnswered(task, outcome)
  \/ SerialRetryInterval
  \/ SerialHealthOk(50)
  \/ SetOfflineStatus
  \/ \E p \in 1..Len(drains), outcome \in DirectOutcomes : RetryAnswered(p, outcome)

SpecWrapper == Fresh /\ [][NextWrapper]_vars

\* the retry queue under the interval timer, which fires again while a run of
\* processRetryQueue is still awaiting an operation; every call generates its id,
\* and the caller may empty the map
NextRetryQueue ==
  \/ \E maxRetries \in MaxRetriesInputs : ExecuteDirect(NoOperationId, TRUE, maxRetries)
  \/ \E task \in BagToSet(tasks), outcome \in DirectOutcomes : CallAnswered(task, outcome)
  \/ RetryInterval
  \/ \E latency \in Latencies : HealthOk(latency)
  \/ SetOfflineStatus
  \/ ClearFailedOperations
  \/ \E p \in 1..Len(drains), outcome \in {"ok", "netcoded"} : RetryAnswered(p, outcome)

SpecRetryQueue == Fresh /\ [][NextRetryQueue]_vars

\* direct calls whose operation rejects with errors of every shape
NextClassify ==
  \/ \E operationId \in OperationIds, retryOnReconnect \in BOOLEAN,
        maxRetries \in MaxRetriesInputs :
       ExecuteDirect(operationId, retryOnReconnect, maxRetries)
  \/ \E task \in BagToSet(tasks), error \in ThrownErrors : CallRejected(task, error)
  \/ SerialHealthOk(50)
  \/ SetOfflineStatus
  \/ \E p \in 1..Len(drains) : RetryAnswered(p, "ok")

SpecClassify == Fresh /\ [][NextClassify]_vars

\* check-ins made offline on a storage that may refuse the write
OfflineStoreGuests2 == {4, 6}

NextOfflineStore ==
  \/ \E guests2 \in OfflineStoreGuests2 : status = "OFFLINE" /\ ProcessCheckIn(1, guests2)
  \/ \E task \in BagToSet(tasks), writeThrows \in BOOLEAN :
       ProcessCheckInResumesWith(task, writeThrows)
  \/ status = "OFFLINE" /\ ValidateCheckIn(1)
  \/ \E latency \in Latencies : SerialHealthOk(latency)
  \/ SetOfflineStatus
  \/ SerialRetryInterval
  \/ \E p \in 1..Len(drains), outcome \in StoreOutcomes : RetryAnswered(p, outcome)

SpecOfflineStore == Fresh /\ [][NextOfflineStore]_vars

\* the drains of the map with the clock running: entries attempted at different
\* times, some registered with no retry at all
DrainMaxRetries == {0, 2}

\* Date.now() advances
Tick ==
  /\ now <= MaxTicks
  /\ now' = now + 1
  /\ UNCHANGED <<storage, content, nextId, syncOnlyVars, record, histVars, checkVars>>

\* a call made while the status is OFFLINE, registered under the id it generates or
\* under the id the caller names
OfflineCallWith(operationId, maxRetries) ==
  /\ status = "OFFLINE"
  /\ ExecuteDirect(operationId, TRUE, maxRetries)

NextDrain ==
  \/ \E operationId \in OperationIds, maxRetries \in DrainMaxRetries :
       OfflineCallWith(operationId, maxRetries)
  \/ RetryInterval
  \/ HealthOk(50)
  \/ SetOfflineStatus
  \/ \E p \in 1..Len(drains), outcome \in {"ok", "netcoded"} : RetryAnswered(p, outcome)
  \/ Tick

SpecDrain == Fresh /\ [][NextDrain]_vars

\* The same where the drain timer keeps firing (setInterval, lines 213-216, runs until
\* stopMonitoring) and every operation a drain awaits settles.
SpecDrainFair ==
  /\ Fresh /\ [][NextDrain]_vars
  /\ WF_vars(RetryInterval)
  /\ WF_vars(\E p \in 1..Len(drains), outcome \in {"ok", "netcoded"} :
               RetryAnswered(p, outcome))

\* a call made while the status is OFFLINE, which registers its operation at once
\* under the id it generates
OfflineCall ==
  /\ status = "OFFLINE"
  /\ ExecuteDirectWithin(MaxCapCalls, NoOperationId, TRUE, 1)

\* the health probe answers once enough calls were made offline to fill the map,
\* and not while a run of processRetryQueue is in flight
LateProbeOk(latency) ==
  /\ execCalls >= MAX_FAILED_OPERATIONS
  /\ drains = <<>>
  /\ HealthOk(latency)

\* the failed-operation map filled by calls made offline and drained on reconnect
NextCap ==
  \/ OfflineCall
  \/ \E latency \in Latencies : LateProbeOk(latency)
  \/ SetOfflineStatus
  \/ \E p \in 1..Len(drains) : RetryAnswered(p, "ok")

SpecCap == Fresh /\ [][NextCap]_vars

\* guest counts of the duplicate check-in scenario, doubled: 2 and 3
DuplicateGuests2 == {4, 6}

\* check-ins and status reads of one booking, overlapping or not, and the store's
\* answers
NextDuplicate ==
  \/ \E guests2 \in DuplicateGuests2 : ProcessCheckIn(1, guests2)
  \/ \E task \in BagToSet(tasks) : ProcessCheckInResumes(task)
  \/ \E guests2 \in DuplicateGuests2 \cup {3} : CheckInAttendee(1, guests2)   \* 3: 1.5
  \/ GetCheckInStatus(1)
  \/ ValidateCheckIn(1)
  \/ \E task \in BagToSet(tasks), outcome \in StoreOutcomes : CallAnswered(task, outcome)

SpecDuplicate == Fresh /\ [][NextDuplicate]_vars

\* a check-in made while the service is OFFLINE: it is persisted for sync
OfflineCheckInOf(guests2) == status = "OFFLINE" /\ ProcessCheckIn(1, guests2)

\* the guest count of the check-ins that are replayed, doubled: 2
ReplayGuests2 == {4}

\* check-ins persisted offline and their replays by passes and retry timers
NextReplay ==
  \/ \E guests2 \in ReplayGuests2 : OfflineCheckInOf(guests2)
  \/ \E task \in BagToSet(tasks) : ProcessCheckInResumes(task)
  \/ OnlineEvent
  \/ TriggerSync
  \/ \E p \in 1..Len(passes), outcome \in FetchOutcomes : SyncResponse(p, outcome)
  \/ \E operationId \in OpIds, tracked \in BOOLEAN : TimerFire(operationId, tracked)
  \/ \E operation \in BagToSet(timerRuns), outcome \in FetchOutcomes :
       TimerResponse(operation, outcome)

SpecReplay == Fresh /\ [][NextReplay]_vars

\* ------------------------------------- the durable queue on the key as it is
\* a call of one of the five functions of lib/offline-storage.ts
QueueCall(op, operationId, readThrows, writeThrows) ==
  /\ op = "enqueue" => nextId < MaxQueued + 1
  /\ LET r == QueueFunction(op, content, storage, operationId, nextId + 1, now,
                            readThrows \/ "getItem" \in throwing,
                            writeThrows \/ "setItem" \in throwing)
     IN /\ storage' = r.left.st
        /\ content' = r.left.content
        /\ queueCall' = [op |-> op, content |-> content, readThrows |-> readThrows,
                         writeThrows |-> writeThrows, threw |-> r.threw,
                         readAsList |-> r.readAsList, read |-> r.read,
                         operationId |-> operationId, shouldRetry |-> r.shouldRetry]
  /\ nextId' = IF op = "enqueue" THEN nextId + 1 ELSE nextId
  /\ UNCHANGED <<syncOnlyVars, record, now, failedReplays, succeeded, evicted, cleared,
                 replayedTwice, firstReplay, lastStats, hasWindow, throwing, retryRun,
                 checkVars>>

\* the key cleared (clearOfflineOperations, lines 115-118) or overwritten by other
\* code, between two tasks or in the task that made a call, before the microtask of
\* that call; the history counts what it held with the operations cleared
KeyOverwritten(kind) ==
  /\ hasWindow
  /\ kind \in ContentKinds \ {"list"}
  /\ content # kind
  /\ content' = kind
  /\ storage' = <<>>
  /\ cleared' = cleared \cup IdsOf(storage)
  /\ UNCHANGED <<nextId, syncOnlyVars, record, now, failedReplays, succeeded, evicted,
                 replayedTwice, firstReplay, lastStats, keyVars, retryRun, checkVars>>

\* localStorage begins or ceases to throw: setItem on a quota that is exceeded,
\* getItem and setItem where the access to the storage is denied
StorageFault(methods) ==
  /\ hasWindow
  /\ ~MicrotaskPending
  /\ methods # throwing
  /\ throwing' = methods
  /\ UNCHANGED <<syncVars, failedReplays, succeeded, evicted, cleared, replayedTwice,
                 firstReplay, lastStats, hasWindow, queueCall, retryRun, checkVars>>

NextStorage ==
  \/ \E op \in QueueOps, readThrows \in BOOLEAN :
       \E operationId \in (IF op \in {"remove", "incrementRetry"} THEN OpIds ELSE {0}),
          writeThrows \in (IF op \in {"list", "listRetryable"} THEN {FALSE}
                           ELSE BOOLEAN) :
         QueueCall(op, operationId, readThrows, writeThrows)
  \/ \E kind \in ContentKinds : KeyOverwritten(kind)

SpecStorage == Init /\ [][NextStorage]_vars

\* the sync orchestrator with the jitter of the backoff drawn by Math.random()
NextBackoff ==
  \/ OnlineEvent
  \/ \E data \in Payloads : QueueOperation("checkin", data)
  \/ \E p \in 1..Len(passes), outcome \in FetchOutcomes, jitterPct \in JitterPct :
       SyncResponseJittered(p, outcome, jitterPct)
  \/ \E operationId \in OpIds, tracked \in BOOLEAN : TimerFire(operationId, tracked)
  \/ \E operation \in BagToSet(timerRuns), outcome \in FetchOutcomes,
        jitterPct \in JitterPct : TimerResponseJittered(operation, outcome, jitterPct)

SpecBackoff == Resumed /\ [][NextBackoff]_vars

\* --------------------------- the sync orchestrator on the key as the session finds it
\* The module loaded with or without a window, on a key that holds a list an earlier
\* session left, nothing, or something else; localStorage begins and ceases to throw,
\* and the key is overwritten by other code.
FaultSets == SUBSET {"getItem", "setItem"}
KeyOutcomes == {"ok"}     \* every replay is accepted: what is lost is lost to the storage

NextKey ==
  \/ TriggerSync
  \/ OnlineEvent
  \/ OfflineEvent
  \/ \E data \in Payloads : QueueOperation("checkin", data)
  \/ ClearAllOperations
  \/ \E p \in 1..Len(passes), outcome \in KeyOutcomes : SyncResponse(p, outcome)
  \/ \E operationId \in OpIds, tracked \in BOOLEAN : TimerFire(operationId, tracked)
  \/ \E operation \in BagToSet(timerRuns), outcome \in KeyOutcomes :
       TimerResponse(operation, outcome)
  \/ \E methods \in FaultSets : StorageFault(methods)
  \/ \E kind \in ContentKinds : KeyOverwritten(kind)

SpecKey == Init /\ [][NextKey]_vars

\* ------------------------------------------------------ ErrorHandler.withRetry
\* config.maxAttempts as the tests pass it, and the default
MaxAttemptsInputs == {0, 1, 2, DEFAULT_MAX_ATTEMPTS}

WithRetryLeaves ==
  UNCHANGED <<syncVars, checkVars, failedReplays, succeeded, evicted, cleared,
              replayedTwice, firstReplay,
              lastStats, keyVars>>

WithRetry(maxAttempts) ==
  /\ retryRun.at \in {"idle", "returned", "threw"}
  /\ retryRun' = withRetryCalled(maxAttempts)
  /\ WithRetryLeaves

OperationSettled(outcome) ==
  /\ retryRun.at = "awaiting"
  /\ retryRun' = withRetrySettled(retryRun, outcome)
  /\ WithRetryLeaves

DelayElapsed ==
  /\ retryRun.at = "delaying"
  /\ retryRun' = withRetryDelayed(retryRun)
  /\ WithRetryLeaves

NextWithRetry ==
  \/ \E maxAttempts \in MaxAttemptsInputs : WithRetry(maxAttempts)
  \/ \E outcome \in RetryOutcomes : OperationSettled(outcome)
  \/ DelayElapsed

SpecWithRetry == Fresh /\ [][NextWithRetry]_vars

\* ------------------------------------------------- the network monitor alone
\* the functions callers register, and the latencies at the edges of the classes
ListenerFns == {1, 2}
ProbeLatencies == {0, 99, 100, 299, 300, 999, 1000, 1001, 4999}

\* addListener(fn): lines 113-123
AddListener(fn) ==
  /\ Len(unsubscribes) < MaxListeners
  /\ listeners' = Append(listeners, [fn |-> fn, reg |-> Len(unsubscribes) + 1, calls |-> 0,
                                     status |-> "UNKNOWN", quality |-> "UNKNOWN"])
  /\ unsubscribes' = Append(unsubscribes, [fn |-> fn, called |-> 0])
  /\ UNCHANGED <<status, quality, monitoring, probing, failedOperations, nextOpId, tasks,
                 drains, lastResult, lastExec, lastCatch, exhausted, execCalls,
                 storeFailures, syncVars, histVars>>

\* the closure addListener returned is called: lines 117-122
Unsubscribe(h) ==
  /\ h \in 1..Len(unsubscribes)
  /\ LET index == IndexOfListener(listeners, unsubscribes[h].fn)
     IN listeners' = IF index > 0 THEN Splice(listeners, index) ELSE listeners
  /\ unsubscribes' = [unsubscribes EXCEPT ![h].called = IF @ < 2 THEN @ + 1 ELSE @]
  /\ UNCHANGED <<status, quality, monitoring, probing, failedOperations, nextOpId, tasks,
                 drains, lastResult, lastExec, lastCatch, exhausted, execCalls,
                 storeFailures, syncVars, histVars>>

\* checkNetworkStatus is called and awaits its fetch: lines 290-300
CheckCalled ==
  /\ ~MicrotaskPending
  /\ probing < MaxProbes
  /\ probing' = probing + 1
  /\ UNCHANGED <<status, quality, listeners, unsubscribes, monitoring, failedOperations, nextOpId,
                 tasks, drains, lastResult, lastExec, lastCatch, exhausted, execCalls,
                 storeFailures, syncVars, histVars>>

\* the monitoring interval fires (lines 208-210)
MonitorInterval == CheckCalled

\* window 'online' event while the monitor listens: handleOnline, lines 343-345
HandleOnline ==
  /\ monitoring.onlineListeners > 0
  /\ CheckCalled

\* window 'offline' event while the monitor listens: handleOffline, lines 347-349
HandleOffline ==
  /\ monitoring.offlineListeners > 0
  /\ SetOfflineStatus

\* the fetch of a probe answers ok
CheckOk(latency) ==
  /\ probing > 0
  /\ HealthOkOf([Ktx EXCEPT !.pr = @ - 1], latency)

\* the fetch of a probe answers not ok, is aborted at PING_TIMEOUT or rejects:
\* lines 318-323
CheckFailed ==
  /\ ~MicrotaskPending
  /\ probing > 0
  /\ probing' = probing - 1
  /\ status' = "OFFLINE"
  /\ quality' = "UNKNOWN"
  /\ listeners' = setOfflineStatus(listeners)
  /\ UNCHANGED <<unsubscribes, monitoring, failedOperations, nextOpId, tasks, drains, lastResult,
                 lastExec, lastCatch, exhausted, execCalls, storeFailures, syncVars,
                 histVars>>

\* the constructor starts the monitoring, whose first probe is in flight
InitMonitor ==
  /\ InitSync
  /\ InitCheckProbing(1)
  /\ InitOnline

\* a session whose key holds nothing yet, its network monitor about to probe
FreshMonitor == InitMonitor /\ content = "absent"

NextMonitor ==
  \/ \E fn \in ListenerFns : AddListener(fn)
  \/ \E h \in 1..Len(unsubscribes) : Unsubscribe(h)
  \/ MonitorInterval
  \/ HandleOnline
  \/ HandleOffline
  \/ \E latency \in ProbeLatencies : CheckOk(latency)
  \/ CheckFailed

SpecMonitor == FreshMonitor /\ [][NextMonitor]_vars

\* ------------------------------------------------ the monitor started and stopped
\* startMonitoring() called: it probes at once when it does start
StartMonitoring ==
  /\ ~monitoring.isMonitoring => probing < MaxProbes
  /\ monitoring' = startMonitoring(monitoring)
  /\ probing' = IF monitoring.isMonitoring THEN probing ELSE probing + 1
  /\ UNCHANGED <<status, quality, listeners, unsubscribes, failedOperations, nextOpId,
                 tasks, drains, lastResult, lastExec, lastCatch, exhausted, execCalls,
                 storeFailures, syncVars, histVars>>

StopMonitoring ==
  /\ monitoring' = stopMonitoring(monitoring)
  /\ UNCHANGED <<status, quality, listeners, unsubscribes, probing, failedOperations,
                 nextOpId, tasks, drains, lastResult, lastExec, lastCatch, exhausted,
                 execCalls, storeFailures, syncVars, histVars>>

\* window 'offline' event: the listener of the sync service (offline-sync.ts 48-50)
\* and handleOffline of the network monitor when the monitor listens (it does from
\* startMonitoring to stopMonitoring), run one after the other
WindowOffline ==
  /\ hasWindow
  /\ ~MicrotaskPending
  /\ isOnline
  /\ isOnline' = FALSE
  /\ IF monitoring.offlineListeners > 0
     THEN /\ status' = "OFFLINE"
          /\ quality' = "UNKNOWN"
          /\ listeners' = setOfflineStatus(listeners)
     ELSE UNCHANGED <<status, quality, listeners>>
  /\ UNCHANGED <<unsubscribes, monitoring, probing, storage, content, nextId, isSyncing,
                 retryTimeouts, orphanTimers, retryDelays, passes,
                 timerRuns, record, now, histVars, failedOperations, nextOpId, tasks,
                 drains, lastResult, lastExec, lastCatch, exhausted, execCalls,
                 storeFailures>>

\* the timers fire while they are alive, the window calls the listeners it has
NextLifecycle ==
  \/ StartMonitoring
  \/ StopMonitoring
  \/ \E fn \in ListenerFns : AddListener(fn)
  \/ monitoring.probeTimers > 0 /\ MonitorInterval
  \/ HandleOnline
  \/ HandleOffline
  \/ WindowOffline
  \/ \E latency \in ProbeLatencies : CheckOk(latency)
  \/ CheckFailed

SpecLifecycle == FreshMonitor /\ [][NextLifecycle]_vars

\* listeners that act on the list while they are notified
ActingFns == {1, OnceFn, RemoverFn, ThrowingFn}

NextNotify ==
  \/ \E fn \in ActingFns : AddListener(fn)
  \/ \E h \in 1..Len(unsubscribes) : Unsubscribe(h)
  \/ HandleOnline
  \/ HandleOffline
  \/ \E latency \in Latencies : CheckOk(latency)
  \/ CheckFailed

SpecNotify == FreshMonitor /\ [][NextNotify]_vars

\* --------------------------------------- both services under the window's events
\* window 'online' event, which the browser raises when connectivity returns; the
\* probe handleOnline starts is answered later
Reconnect ==
  /\ ~isOnline
  /\ OnlineEvent

\* processCheckIn called while the device is offline
OfflineCheckIn ==
  /\ ~isOnline /\ status = "OFFLINE"
  /\ ProcessCheckIn(1, 4)

\* the microtasks of those calls
OfflineCheckInResumes == \E task \in BagToSet(tasks) : ProcessCheckInResumes(task)

\* the health probe answers only while there is connectivity, between the runs of
\* processRetryQueue
ProbeOk(latency) ==
  /\ isOnline
  /\ SerialHealthOk(latency)

ReconnectResponses ==
  \/ \E p \in 1..Len(passes), outcome \in FetchOutcomes : SyncResponse(p, outcome)
  \/ \E operation \in BagToSet(timerRuns), outcome \in FetchOutcomes :
       TimerResponse(operation, outcome)

ReconnectTimers ==
  \E operationId \in OpIds, tracked \in BOOLEAN : TimerFire(operationId, tracked)

\* no manual triggerSync: the queue is replayed by the events and the timers only;
\* the store answers the replays of the failed-operation map
NextReconnect ==
  \/ OfflineCheckIn
  \/ OfflineCheckInResumes
  \/ WindowOffline
  \/ Reconnect
  \/ ProbeOk(50)
  \/ \E p \in 1..Len(drains) : RetryAnswered(p, "ok")
  \/ ReconnectResponses
  \/ ReconnectTimers

\* every microtask runs, every request is answered and every timer fires
SpecReconnect ==
  /\ Fresh
  /\ [][NextReconnect]_vars
  /\ WF_vars(OfflineCheckInResumes)
  /\ WF_vars(ReconnectResponses)
  /\ WF_vars(ReconnectTimers)

\* ------------------------------------------------------------- properties
Enqueued == 1..nextId
Distinct(ops) == \A i, j \in 1..Len(ops) : ops[i].id = ops[j].id => i = j
Client4xx == {"conflict409", "client4xx"}

\* C1 (as claimed): an operation that has failed maxRetries replays, counting
\* triggerSync replays and retry-timer replays alike, is out of the queue.
C1_RetryBudget ==
  \A id \in OpIds : failedReplays[id] >= MAX_RETRY_COUNT => id \notin IdsOf(storage)

\* C2 (as claimed): when a drain completes, the number of persisted operations is
\* the number of enqueued operations not yet successfully replayed, none of them
\* twice; operations that incrementRetryCount evicted at maxRetries, that
\* clearAllOperations removed or that other code wiped with the key are not counted
\* as lost.
C2_NoDoubleCount ==
  [][(passes # <<>> /\ passes' = <<>>)
       => /\ Distinct(storage')
          /\ Len(storage') =
               Cardinality(Enqueued' \ (succeeded' \cup evicted' \cup cleared'))]_vars

\* C9 (as claimed): at most one triggerSync pass is in flight; a call made while a
\* pass is in flight starts no pass, replays nothing and returns the current stats;
\* and isSyncing is false whenever no pass is running.
C9_OneDrain ==
  /\ [](Len(passes) <= 1)
  /\ [](passes = <<>> => ~isSyncing)
  /\ [][(passes # <<>> /\ TriggerSync)
         => /\ passes' = passes /\ record' = record /\ storage' = storage
            /\ lastStats' = getSyncStats(storage)]_vars

\* C10 (as claimed): a triggerSync replay answered 409 or another 4xx leaves the
\* operation out of the durable queue.
C10_ClientErrorRemoved ==
  [][\A p \in 1..Len(passes) : \A outcome \in Client4xx :
       SyncResponse(p, outcome)
         => passes[p].ops[passes[p].idx].id \notin IdsOf(storage')]_vars

\* C3: a call of executeWithResilience made while the status is OFFLINE does not
\* invoke the wrapped operation and rejects with a NETWORK error of code
\* NETWORK_ERROR, whatever retryOnReconnect is.
C3_OfflineFastFail ==
  lastExec.status = "OFFLINE"
    => /\ ~lastExec.invoked
       /\ lastExec.error.category = "NETWORK"
       /\ lastExec.error.code = "NETWORK_ERROR"

\* C3 witness: a direct call with retryOnReconnect = false, made offline, has
\* rejected and has registered nothing.
C3_Witness ==
  /\ lastExec.status = "OFFLINE" /\ ~lastExec.retryOnReconnect
  /\ ~lastExec.invoked /\ lastExec.error.code = "NETWORK_ERROR"
  /\ execCalls > 0 /\ tasks = EmptyBag /\ failedOperations = <<>>

\* the closures of a check-in that replay its write
WritesCheckIn(operation) == operation.kind \in {"checkin", "update"}

\* C4 (as claimed): no check-in is held by the failed-operation map and by the
\* durable offline queue at once.
C4_OneRetryPath ==
  \A i \in 1..Len(failedOperations), j \in 1..Len(storage) :
    ~ /\ WritesCheckIn(failedOperations[i].operation)
      /\ storage[j].type = "checkin"
      /\ storage[j].data = failedOperations[i].operation.req

\* C5 (as claimed): no write replaces the attendance data of a booking by data of
\* an older check-in.
C5_NoStaleOverwrite ==
  [][\A b \in Bookings : record'[b].attendedAt >= record[b].attendedAt]_vars

InvalidInput(bookingId, guests2) ==
  bookingId <= 0 \/ guests2 < 0 \/ guests2 % 2 # 0 \/ guests2 > 2 * 999

\* C6 (as claimed): processCheckIn on invalid input returns a VALIDATION error,
\* sends nothing to the store, registers nothing in the failed-operation map and
\* adds nothing to the durable queue: neither the call, up to its await, nor the
\* microtask that resumes it does.
C6_InvalidInputTerminal ==
  [][/\ \A bookingId \in BookingInputs, guests2 \in GuestInputs2 :
          (InvalidInput(bookingId, guests2) /\ ProcessCheckIn(bookingId, guests2))
            => /\ \A task \in BagToSet(tasks' (-) tasks) : task.kind = "settled"
               /\ tasks' = tasks => lastResult'.error.category = "VALIDATION"
               /\ record' = record
               /\ failedOperations' = failedOperations
               /\ storage' = storage
     /\ \A task \in BagToSet(tasks) :
          (/\ InvalidInput(task.req.bookingId, 2 * task.req.actualGuests)
           /\ ProcessCheckInResumes(task))
            => /\ lastResult'.error.category = "VALIDATION"
               /\ record' = record
               /\ failedOperations' = failedOperations
               /\ storage' = storage]_vars

\* C7 (as claimed): a valid check-in that a network failure stopped has returned a
\* result marked pending, and the durable queue holds exactly one checkin entry
\* with its payload, under the id the result carries.
C7_NetworkFailureQueued ==
  (lastResult.cause \in {"offline", "network"}
     /\ ~InvalidInput(lastResult.request.bookingId, 2 * lastResult.request.actualGuests))
    => /\ lastResult.isOffline
       /\ Cardinality({j \in 1..Len(storage) :
                         /\ storage[j].type = "checkin"
                         /\ storage[j].data = lastResult.request}) = 1
       /\ \E j \in 1..Len(storage) :
            /\ storage[j].id = lastResult.offlineOperationId
            /\ storage[j].data = lastResult.request

\* C8 (as claimed): a result marked isOffline is presented as saved for later sync.
C8_QueuedShownAsSaved ==
  lastResult.isOffline
    => formatCheckInResult(lastResult) =
         [title |-> "Saved for Offline Sync", type |-> "warning"]

\* a replay of the operation has been sent to the server
Replayed(id) ==
  \/ failedReplays[id] > 0
  \/ id \in succeeded
  \/ \E p \in 1..Len(passes) : passes[p].ops[passes[p].idx].id = id
  \/ \E operation \in BagToSet(timerRuns) : operation.id = id

\* nothing the service has started will replay the operation
Stranded(id) ==
  /\ id \in IdsOf(storage) /\ ~Replayed(id)
  /\ ~isSyncing /\ passes = <<>> /\ timerRuns = EmptyBag
  /\ retryTimeouts[id] # "pending" /\ orphanTimers[id] = 0

\* C11 (as claimed), in its finite form: connectivity is back and no operation
\* persisted while the device was offline is left with nothing to replay it
\* (no pass, no timer), never replayed.
C11_ReplayedAfterReconnect ==
  isOnline => \A id \in OpIds : ~Stranded(id)

\* C12 (as claimed): after a call whose operation failed with a VALIDATION error
\* the failed-operation map holds no entry under the operationId of the call.
C12_ValidationNotInMap_Claimed ==
  lastCatch.error.category = "VALIDATION" => ~lastCatch.inMap

\* C12 (amended): a call whose operation fails with a VALIDATION error leaves the
\* failed-operation map as it was: it registers nothing, and an entry an earlier
\* call registered under the same operationId stays.
C12_ValidationNotRegistered ==
  [][\A task \in BagToSet(tasks) :
       CallAnswered(task, "validation") => failedOperations' = failedOperations]_vars

\* C12 witness: an operation invoked with retryOnReconnect has failed with a
\* VALIDATION error while the status was not OFFLINE, so that only the error's
\* classification kept it out of the map.
C12_Witness ==
  /\ lastCatch.error.category = "VALIDATION" /\ lastCatch.error.code = "VALIDATION_ERROR"
  /\ lastCatch.retryOnReconnect /\ lastCatch.status # "OFFLINE"

\* C13 (as claimed): when an operation invoked with retryOnReconnect has failed with
\* a network error, the call returns with an entry under its operationId in the
\* failed-operation map, whatever the status has become while it was in flight.
C13_NetworkFailureRegistered ==
  (lastCatch.retryOnReconnect /\ isNetworkError(lastCatch.error)) => lastCatch.inMap

\* the entries whose operation this step invokes from a run of processRetryQueue
NewlyInvoked ==
  {drains'[p].ops[drains'[p].idx] :
     p \in {q \in 1..Len(drains') :
              \/ Len(drains') > Len(drains) /\ q = Len(drains')
              \/ Len(drains') = Len(drains) /\ drains'[q].idx > drains[q].idx}}

\* C14 (as claimed): every entry of the failed-operation map has retryCount <=
\* maxRetries, and no run of processRetryQueue invokes the operation of an entry
\* that was evicted on reaching maxRetries.
C14_RetryBudget ==
  /\ [](\A i \in 1..Len(failedOperations) :
          failedOperations[i].retryCount <= failedOperations[i].maxRetries)
  /\ [][\A op \in NewlyInvoked : op.id \notin exhausted]_vars

\* C15: the failed-operation map never holds more than MAX_FAILED_OPERATIONS
\* entries, and a step that registers an operation under an id the full map does not
\* hold removes its first entry (the oldest), keeps the others in their order and
\* puts the new entry last.
C15_BoundedFifo ==
  /\ [](Len(failedOperations) <= MAX_FAILED_OPERATIONS)
  /\ [][(Len(failedOperations) = MAX_FAILED_OPERATIONS
          /\ IdsOf(failedOperations') \ IdsOf(failedOperations) # {})
         => /\ Len(failedOperations') = MAX_FAILED_OPERATIONS
            /\ SubSeq(failedOperations', 1, MAX_FAILED_OPERATIONS - 1)
                 = Tail(failedOperations)
            /\ failedOperations'[MAX_FAILED_OPERATIONS].id
                 \notin IdsOf(failedOperations)]_vars

\* C15 witness: after 51 calls made offline under generated ids the map is full,
\* its oldest entry (id 1) is gone, ids 2 to 50 keep their order and 51 is last.
C15_Witness ==
  /\ execCalls = MAX_FAILED_OPERATIONS + 1
  /\ Len(failedOperations) = MAX_FAILED_OPERATIONS
  /\ \A i \in 1..MAX_FAILED_OPERATIONS : failedOperations[i].id = i + 1

\* what checkInAttendee reports of a row: the duplicate flag and previousCheckIn
ReportOf(row) ==
  [isDuplicateCheckIn |-> row.isAttended,
   previousCheckIn |-> IF row.isAttended
                       THEN [attendedAt |-> row.attendedAt,
                             actualGuests |-> row.actualGuests]
                       ELSE NoPrevious]

ReportIn(result) ==
  [isDuplicateCheckIn |-> result.isDuplicateCheckIn,
   previousCheckIn |-> result.previousCheckIn]

\* the row the update of a request leaves
Written(request) ==
  [isAttended |-> TRUE, attendedAt |-> request.timestamp,
   actualGuests |-> request.actualGuests]

\* C16 (as claimed): a check-in reports the duplicate flag and previousCheckIn of
\* the row the store held before the call, and leaves its own data in the store.
C16_DuplicateReported_Claimed ==
  [][\A task \in BagToSet(tasks) :
       (task.kind = "update" /\ CallAnswered(task, "ok"))
         => LET result == UpdateAnswered(Ktx, task, "ok").result
            IN /\ result.success
               /\ ReportIn(result) = ReportOf(task.atCall)
               /\ record'[task.req.bookingId] = Written(task.req)
               /\ task.owner = "processCheckIn"
                    => lastResult'.success /\ ReportIn(lastResult') = ReportIn(result)]_vars

\* C16 (amended): a check-in that succeeds reports the duplicate flag and
\* previousCheckIn of the row its own status read returned, and leaves its own
\* actualGuests and timestamp in the store, whatever the row held.
C16_DuplicateReported ==
  [][\A task \in BagToSet(tasks) :
       (task.kind = "update" /\ CallAnswered(task, "ok"))
         => LET result == UpdateAnswered(Ktx, task, "ok").result
            IN /\ result.success
               /\ ReportIn(result) = ReportOf(task.prev)
               /\ record'[task.req.bookingId] = Written(task.req)
               /\ task.owner = "processCheckIn"
                    => lastResult'.success /\ ReportIn(lastResult') = ReportIn(result)]_vars

\* C16 witness: a check-in with 2 guests of a booking checked in with 3 guests has
\* returned the duplicate flag with the 3 guests, and the store holds 2.
C16_Witness ==
  /\ lastResult.success /\ lastResult.isDuplicateCheckIn
  /\ lastResult.previousCheckIn.actualGuests = 3
  /\ lastResult.previousCheckIn.attendedAt < lastResult.request.timestamp
  /\ lastResult.request.actualGuests = 2
  /\ record[1] = Written(lastResult.request)

\* C17: of two check-ins of one booking that overlap, the one whose update reaches
\* the store second reports the duplicate check-in, in whatever order they read:
\* an update that finds the row written since its own call began returns
\* isDuplicateCheckIn = true.
C17_SecondWriterReportsDuplicate ==
  [][\A task \in BagToSet(tasks) :
       (/\ task.kind = "update" /\ CallAnswered(task, "ok")
        /\ ~task.atCall.isAttended
        /\ record[task.req.bookingId].isAttended)
         => LET result == UpdateAnswered(Ktx, task, "ok").result
            IN result.success /\ result.isDuplicateCheckIn]_vars

\* the row an accepted replay of the operation has just left: the payload's count
\* and time, and where the operation had been replayed with success before, the row
\* its first accepted replay left
ReplayLeaves(operation) ==
  LET row == record'[operation.data.bookingId]
  IN /\ row.actualGuests = operation.data.actualGuests
     /\ row.attendedAt = operation.data.timestamp
     /\ operation.id \in succeeded => row = firstReplay[operation.id]

Unusable(call) == call.readThrows \/ call.content # "list"

\* C19: whatever the key holds and whether or not a read or a write of the storage
\* throws, no durable-queue function throws, and a read of unusable content is
\* taken for the empty queue.
C19_DegradesGracefully ==
  queueCall.op # "none"
    => /\ ~queueCall.threw
       /\ Unusable(queueCall) => queueCall.readAsList /\ queueCall.read = <<>>

\* the entries of a queue other than those of an id, in their order
Others(ops, operationId) == SelectSeq(ops, LAMBDA op : op.id # operationId)

\* C20: with the storage working, incrementRetryCount(id) on a persisted entry
\* raises its retryCount by one; at maxRetries the entry is removed and false is
\* returned, below it the new count is persisted and true is returned; the other
\* entries stay as they were, and for an id not in the queue it returns false and
\* changes nothing.
C20_IncrementRetryCount ==
  [][\A id \in OpIds :
       (content = "list" /\ QueueCall("incrementRetry", id, FALSE, FALSE))
         => LET i == FindIndex(storage, id)
            IN /\ content' = "list"
               /\ ~queueCall'.threw
               /\ Others(storage', id) = Others(storage, id)
               /\ i = 0 => storage' = storage /\ ~queueCall'.shouldRetry
               /\ (i # 0 /\ storage[i].retryCount + 1 >= storage[i].maxRetries)
                    => id \notin IdsOf(storage') /\ ~queueCall'.shouldRetry
               /\ (i # 0 /\ storage[i].retryCount + 1 < storage[i].maxRetries)
                    => /\ Len(storage') = Len(storage)
                       /\ storage'[i] = [storage[i] EXCEPT !.retryCount = @ + 1]
                       /\ queueCall'.shouldRetry]_vars

\* C20 witness: of two persisted entries, the third increment of one has removed
\* it and returned false, and the other entry still holds the count it was given.
C20_Witness ==
  /\ queueCall.op = "incrementRetry" /\ ~queueCall.shouldRetry
  /\ ~queueCall.readThrows /\ ~queueCall.writeThrows /\ queueCall.content = "list"
  /\ Len(queueCall.read) = 2
  /\ \E i \in 1..2 : /\ queueCall.read[i].id = queueCall.operationId
                     /\ queueCall.read[i].retryCount = MAX_RETRY_COUNT - 1
  /\ Len(storage) = 1 /\ storage[1].id # queueCall.operationId
  /\ storage[1].retryCount = 1

\* ids are generated in the order of the enqueues: oldest first is lowest id first
OldestFirst(ops) == \A i, j \in 1..Len(ops) : i < j => ops[i].id < ops[j].id

\* C21: getRetryableOperations returns exactly the persisted entries with
\* retryCount < maxRetries, oldest first, and a triggerSync pass replays the list it
\* took in that order: it starts at the first entry and every response moves it to
\* the next one.
C21_RetryableInOrder ==
  /\ [](LET kept == getRetryableOperations(storage)
        IN /\ OldestFirst(storage) /\ OldestFirst(kept)
           /\ {kept[i] : i \in 1..Len(kept)}
                = {storage[i] : i \in {j \in 1..Len(storage) :
                                         storage[j].retryCount < storage[j].maxRetries}}
           /\ \A p \in 1..Len(passes) : OldestFirst(passes[p].ops))
  /\ [][/\ Len(passes') > Len(passes)
             => /\ passes'[Len(passes')].ops = getRetryableOperations(storage)
                /\ passes'[Len(passes')].idx = 1
        /\ \A p \in 1..Len(passes) :
             (\E outcome \in FetchOutcomes : SyncResponse(p, outcome))
               => \/ /\ Len(passes') < Len(passes)
                     /\ passes[p].idx = Len(passes[p].ops)
                  \/ /\ Len(passes') = Len(passes)
                     /\ passes'[p].ops = passes[p].ops
                     /\ passes'[p].idx = passes[p].idx + 1]_vars

\* C21 witness: a pass that took two persisted check-ins has replayed the older one
\* and awaits the response to the newer one.
C21_Witness ==
  \E p \in 1..Len(passes) :
    /\ Len(passes[p].ops) = 2 /\ passes[p].idx = 2
    /\ passes[p].ops[1].id = 1 /\ passes[p].ops[2].id = 2
    /\ 1 \in succeeded \/ failedReplays[1] > 0

\* C22: every entry the durable queue holds has 0 <= retryCount < maxRetries.
C22_CountBelowBudget ==
  \A i \in 1..Len(storage) :
    /\ 0 <= storage[i].retryCount
    /\ storage[i].retryCount < storage[i].maxRetries

\* C22 witness: an entry has been incremented to the last count below its budget,
\* after as many failed replays.
C22_Witness ==
  \E i \in 1..Len(storage) :
    /\ storage[i].retryCount = storage[i].maxRetries - 1
    /\ failedReplays[storage[i].id] = storage[i].retryCount

\* C23: a triggerSync call made while the service holds the device to be offline
\* sends no replay, leaves the durable queue, its retry counters and the retry
\* timers as they were, and returns the stats of the queue as it is.
C23_OfflineSyncIsNoOp ==
  [][(~isOnline /\ TriggerSync)
       => /\ passes' = passes /\ timerRuns' = timerRuns
          /\ storage' = storage
          /\ retryTimeouts' = retryTimeouts /\ orphanTimers' = orphanTimers
          /\ record' = record /\ isSyncing' = isSyncing
          /\ failedReplays' = failedReplays
          /\ lastStats' = getSyncStats(storage)]_vars

\* C23 witness: offline, with an operation waiting in the queue and nothing in
\* flight, triggerSync has returned stats that count it.
C23_Witness ==
  /\ ~isOnline /\ ~isSyncing /\ passes = <<>> /\ timerRuns = EmptyBag
  /\ Len(storage) = 1 /\ storage[1].type = "checkin"
  /\ failedReplays[storage[1].id] = 0 /\ storage[1].retryCount = 0
  /\ lastStats.pendingOperations = 1

\* the timers set for an operation and not yet fired
PendingTimers(rt, orph, id) == (IF rt[id] = "pending" THEN 1 ELSE 0) + orph[id]

\* C24: when a replay of a triggerSync pass is answered 5xx or fails on the network
\* and the persisted entry is one increment or more short of maxRetries, the pass
\* sets one timer for the operation, in place of the one it tracked, with a delay d
\* such that D <= d <= 1.1 * D, D = min(1000 * 2^retryCount, 30000).
C24_BackoffDelay ==
  [][\A p \in 1..Len(passes), outcome \in {"server5xx", "neterr"}, jitterPct \in JitterPct :
       LET operation == passes[p].ops[passes[p].idx]
           id == operation.id
           i == FindIndex(storage, id)
       IN (/\ SyncResponseJittered(p, outcome, jitterPct)
           /\ i # 0
           /\ storage[i].retryCount + 1 < storage[i].maxRetries)
            => LET D == IF 1000 * (2 ^ storage[i].retryCount) < 30000
                        THEN 1000 * (2 ^ storage[i].retryCount) ELSE 30000
               IN /\ retryTimeouts'[id] = "pending"
                  /\ D <= retryDelays'[id]
                  /\ 10 * retryDelays'[id] <= 11 * D
                  /\ orphanTimers' = orphanTimers
                  /\ PendingTimers(retryTimeouts', orphanTimers', id)
                       <= PendingTimers(retryTimeouts, orphanTimers, id) + 1
                  /\ \A other \in OpIds \ {id} :
                       /\ retryTimeouts'[other] = retryTimeouts[other]
                       /\ retryDelays'[other] = retryDelays[other]]_vars

\* C24 witness: the second failed replay of an operation has set a timer of 2000 ms
\* plus 9% of jitter.
C24_Witness ==
  \E i \in 1..Len(storage) :
    /\ storage[i].retryCount = 2
    /\ failedReplays[storage[i].id] = 2
    /\ retryTimeouts[storage[i].id] = "pending"
    /\ retryDelays[storage[i].id] = 2180

\* C27: a probe that finds the service OFFLINE and is answered ok moves it to
\* ONLINE or SLOW and, in the same task, starts a run of processRetryQueue over
\* the entries of the map that have retries left, oldest attempt first.
C27_DrainOnReconnect ==
  [][\A latency \in Latencies :
       (status = "OFFLINE" /\ HealthOk(latency))
         => /\ status' \in {"ONLINE", "SLOW"}
            /\ operationsToRetry(failedOperations) # <<>>
                 => /\ Len(drains') = Len(drains) + 1
                    /\ drains'[Len(drains')].ops = operationsToRetry(failedOperations)
                    /\ drains'[Len(drains')].idx = 1]_vars

\* C27 witness: the one call made so far was made OFFLINE and registered; a slow
\* probe has answered and the run it started awaits the replay of that call.
C27_Witness ==
  /\ execCalls = 1 /\ lastExec.status = "OFFLINE"
  /\ status = "SLOW" /\ quality = "POOR"
  /\ Len(failedOperations) = 1
  /\ Len(drains) = 1 /\ drains[1].idx = 1
  /\ drains[1].ops[1].id = failedOperations[1].id

\* C25 (as claimed): a window 'online' or 'offline' event leaves the status and the
\* quality as they are and starts a probe.
C25_EventsOnlyProbe ==
  [][(HandleOnline \/ HandleOffline)
       => status' = status /\ quality' = quality /\ probing' = probing + 1]_vars

\* the registrations two lists of listeners share
SameRegistration(a, b) == a.reg = b.reg

\* C26 (as claimed): a step that changes the status calls every listener that is
\* registered before and after it, with the new status and quality; a step that
\* leaves the status as it is calls none, whatever it does to the quality.
C26_NotifiedOnChange ==
  [][/\ status' # status
          => \A i \in 1..Len(listeners), j \in 1..Len(listeners') :
               SameRegistration(listeners'[j], listeners[i])
                 => /\ listeners'[j].calls # listeners[i].calls
                    /\ listeners'[j].status = status'
                    /\ listeners'[j].quality = quality'
     /\ status' = status
          => \A i \in 1..Len(listeners), j \in 1..Len(listeners') :
               SameRegistration(listeners'[j], listeners[i])
                 => listeners'[j] = listeners[i]]_vars

\* C28: the quality is UNKNOWN whenever the status is OFFLINE or UNKNOWN.
C28_QualityUnknownOffline ==
  status \in {"OFFLINE", "UNKNOWN"} => quality = "UNKNOWN"

\* C28 witness: the monitor has gone from a measured quality to OFFLINE, as its
\* listener was told, while two probes are still awaiting their answers.
C28_Witness ==
  /\ status = "OFFLINE" /\ quality = "UNKNOWN" /\ probing = 2
  /\ \E i \in 1..Len(listeners) :
       listeners[i].status = "OFFLINE" /\ listeners[i].calls = 0

\* the classes as the claim states them
ClaimedQuality(L) ==
  IF L < 100 THEN "EXCELLENT"
  ELSE IF 100 <= L /\ L < 300 THEN "GOOD"
  ELSE IF 300 <= L /\ L < 1000 THEN "FAIR"
  ELSE "POOR"

\* C29: a probe answered ok after L ms sets the quality to the class of L and the
\* status to SLOW if L > 1000 and to ONLINE otherwise; a probe that fails sets
\* the status to OFFLINE and the quality to UNKNOWN.
C29_Classification ==
  [][/\ \A L \in ProbeLatencies :
          CheckOk(L) => /\ quality' = ClaimedQuality(L)
                        /\ status' = IF L > 1000 THEN "SLOW" ELSE "ONLINE"
     /\ CheckFailed => status' = "OFFLINE" /\ quality' = "UNKNOWN"]_vars

\* C29 witness: a probe answered after exactly 1000 ms: POOR, and not SLOW.
C29_Witness ==
  status = "ONLINE" /\ quality = "POOR"

\* C30 (as claimed): a call of an unsubscribe closure that has been called before
\* has no effect: every registration other than the one the closure was returned
\* for is still in the list, in its place.
C30_UnsubscribeTwice ==
  [][\A h \in 1..Len(unsubscribes) :
       (unsubscribes[h].called >= 1 /\ Unsubscribe(h))
         => /\ SelectSeq(listeners', LAMBDA l : l.reg # h)
                 = SelectSeq(listeners, LAMBDA l : l.reg # h)
            /\ UNCHANGED <<status, quality, monitoring, probing>>]_vars

\* C31: startMonitoring on a running monitor changes nothing and probes nothing;
\* stopMonitoring leaves no timer alive, no handle and no window listener, and on a
\* stopped monitor changes nothing; at most one probe timer and one drain timer
\* are alive at any time.
C31_StartStopIdempotent ==
  /\ [](monitoring.probeTimers <= 1 /\ monitoring.drainTimers <= 1)
  /\ [][/\ (monitoring.isMonitoring /\ StartMonitoring)
             => monitoring' = monitoring /\ probing' = probing
        /\ StopMonitoring
             => /\ monitoring'.probeTimers = 0 /\ monitoring'.drainTimers = 0
                /\ monitoring'.onlineListeners = 0 /\ monitoring'.offlineListeners = 0
                /\ ~monitoring'.isMonitoring
        /\ (~monitoring.isMonitoring /\ StopMonitoring) => monitoring' = monitoring]_vars

\* C31 witness: the monitor runs with one timer of each kind while two probes are
\* in flight.
C31_Witness ==
  /\ monitoring.isMonitoring /\ probing = 2
  /\ monitoring.probeTimers = 1 /\ monitoring.drainTimers = 1

\* C32 (as claimed): a processCheckIn call whose store call returned a NETWORK_ERROR
\* result gives up only after maxRetries retries, and reports them: a result that
\* carries a NETWORK_ERROR of the store has retryCount = maxRetries.
C32_RetriesNetworkResult ==
  (/\ lastResult # NoProcessingResult
   /\ ~lastResult.success /\ ~lastResult.isOffline
   /\ lastResult.error.code = "NETWORK_ERROR")
    => lastResult.retryCount = MAX_RETRIES

\* is the error an invocation rejected with one withRetry takes as retryable
MarkedRetryable(outcome) == LastErrorOf(ThrownToRetry(outcome)).retryable

\* C33: withRetry invokes the operation at most maxAttempts + 1 times; an invocation
\* follows a rejection only when the error is marked retryable; the first
\* invocation to resolve ends the call, which returns; an error not marked
\* retryable ends it at once, rethrown, so after one invocation when it is the
\* first; onRetry is called once per retry.
C33_WithRetry ==
  /\ retryRun.invocations <= retryRun.maxAttempts + 1
  /\ retryRun.invocations \in {Len(retryRun.outs), Len(retryRun.outs) + 1}
  /\ \A i \in 1..Len(retryRun.outs) :
       LET outcome == retryRun.outs[i]
       IN /\ i < retryRun.invocations => outcome # "ok" /\ MarkedRetryable(outcome)
          /\ outcome = "ok"
               => i = Len(retryRun.outs) /\ retryRun.at = "returned"
          /\ (outcome # "ok" /\ ~MarkedRetryable(outcome))
               => /\ i = Len(retryRun.outs) /\ retryRun.invocations = i
                  /\ retryRun.at = "threw"
                  /\ retryRun.thrown = LastErrorOf(ThrownToRetry(outcome))
  /\ retryRun.at \in {"returned", "threw"}
       => retryRun.onRetryCalls = retryRun.invocations - 1

\* C33 witness: a call with maxAttempts 2 has rejected after three invocations that
\* all failed with retryable errors, one of them an Error named TIMEOUT_ERROR.
C33_Witness ==
  /\ retryRun.at = "threw" /\ retryRun.maxAttempts = 2
  /\ retryRun.invocations = 3 /\ retryRun.onRetryCalls = 2
  /\ \E i \in 1..3 : retryRun.outs[i] = "timeoutnamed"

\* C34 (as claimed): a drain takes the entries of the map with retryCount <
\* maxRetries, in ascending order of lastAttempt, and attempts them in that order,
\* none whose retryCount has reached maxRetries by the time of its attempt; an
\* attempt that succeeds removes the entry; an attempt that fails adds one to the
\* retryCount of the entry and sets its lastAttempt to the time of the failure, or
\* removes it when that reaches maxRetries.
C34_DrainOrder ==
  [][/\ Len(drains') > Len(drains)
          => LET d == drains'[Len(drains')]
             IN /\ \A i \in 1..Len(d.ops) :
                     /\ \E j \in 1..Len(failedOperations) :
                          failedOperations[j].id = d.ops[i].id
                     /\ \A j \in (i + 1)..Len(d.ops) :
                          d.ops[i].lastAttempt <= d.ops[j].lastAttempt
                /\ \A j \in 1..Len(failedOperations) :
                     failedOperations[j].retryCount < failedOperations[j].maxRetries
                       => failedOperations[j].id \in IdsOf(d.ops)
     /\ \A op \in NewlyInvoked : op.retryCount < op.maxRetries
     /\ \A p \in 1..Len(drains), outcome \in {"ok", "netcoded"} :
          RetryAnswered(p, outcome)
            => LET d == drains[p]
                   id == d.ops[d.idx].id
                   i == FindIndex(failedOperations, id)
                   i1 == FindIndex(failedOperations', id)
               IN /\ outcome = "ok" => i1 = 0
                  /\ (outcome # "ok" /\ i # 0)
                       => IF failedOperations[i].retryCount + 1
                               >= failedOperations[i].maxRetries
                          THEN i1 = 0
                          ELSE /\ i1 # 0
                               /\ failedOperations'[i1] =
                                    [failedOperations[i] EXCEPT !.retryCount = @ + 1,
                                                                !.lastAttempt = now]
                  /\ d.idx < Len(d.ops)
                       => /\ Len(drains') = Len(drains)
                          /\ drains'[p].idx = d.idx + 1]_vars

\* replays of the operation awaiting their fetch: by passes and by timer callbacks
RECURSIVE SumCopies(_, _)
SumCopies(bag, ops) ==
  IF ops = {} THEN 0
  ELSE LET operation == CHOOSE x \in ops : TRUE
       IN CopiesIn(operation, bag) + SumCopies(bag, ops \ {operation})

InFlight(id) ==
  Cardinality({p \in 1..Len(passes) : passes[p].ops[passes[p].idx].id = id})
    + SumCopies(timerRuns, {operation \in BagToSet(timerRuns) : operation.id = id})

\* C35 (as claimed): no persisted operation has two replays in flight at once, and
\* a step starts no replay of an operation that is not in the durable queue.
C35_OneReplayAtATime ==
  /\ [](\A id \in OpIds : InFlight(id) <= 1)
  /\ [][\A id \in OpIds :
          InFlight(id)' > InFlight(id) => id \in IdsOf(storage)]_vars

\* C36 (as claimed): no two runs of processRetryQueue await the operation of the
\* same entry at once, and a run invokes no operation whose entry is no longer in
\* the failed-operation map.
C36_OneDrainAtATime ==
  /\ [](\A p, q \in 1..Len(drains) :
          drains[p].ops[drains[p].idx].id = drains[q].ops[drains[q].idx].id => p = q)
  /\ [][\A op \in NewlyInvoked : op.id \in IdsOf(failedOperations')]_vars

\* C37 (as claimed): when processCheckIn returns isOffline = true with an
\* offlineOperationId, the durable queue holds an entry with that id and the
\* payload of the check-in.
C37_OfflineResultIsStored ==
  [][(lastResult' # lastResult /\ lastResult'.isOffline)
       => \E i \in 1..Len(storage') :
            /\ storage'[i].id = lastResult'.offlineOperationId
            /\ storage'[i].data = lastResult'.request]_vars

\* the three codes of a network error
NetworkCodes == {"NETWORK_ERROR", "TIMEOUT_ERROR", "CONNECTION_ERROR"}

\* C38: a call of executeWithResilience whose operation has rejected changes the
\* failed-operation map only when it was made with retryOnReconnect and the
\* classified error has category NETWORK or one of the three network codes; when
\* the operation threw an Error instance, only when the name of that Error is one
\* of the three codes, whatever its message says.
C38_RegistersByClassification ==
  [][\A task \in BagToSet(tasks), error \in ThrownErrors :
       (CallRejected(task, error) /\ failedOperations' # failedOperations)
         => /\ task.retryOnReconnect
            /\ \/ lastCatch'.error.category = "NETWORK"
               \/ lastCatch'.error.code \in NetworkCodes
            /\ error.isError => error.name \in NetworkCodes]_vars

\* C38 witness: an Error instance named TIMEOUT_ERROR was thrown and the call was
\* registered, its message playing no part.
C38_Witness ==
  /\ lastCatch.thrown.isError /\ lastCatch.thrown.name = "TIMEOUT_ERROR"
  /\ lastCatch.retryOnReconnect /\ lastCatch.status # "OFFLINE"
  /\ lastCatch.inMap
  /\ lastCatch.operationId = NoOperationId

\* an Error whose message speaks of the network but whose name is no network code
\* was thrown, with retryOnReconnect and not offline, and nothing was registered
C38_MessageIgnored ==
  /\ lastCatch.thrown.isError /\ lastCatch.thrown.name \in {"TypeError", "Error"}
  /\ lastCatch.retryOnReconnect /\ lastCatch.status # "OFFLINE"
  /\ ~lastCatch.inMap

\* the registrations a notification of the list with (s, q) calls, in order
InvokedBy(li, s, q) == forEachListener(li, 1, Len(li), s, q, <<>>).invoked

\* how often a registration occurs in a sequence of registrations
TimesIn(reg, regs) == Cardinality({i \in 1..Len(regs) : regs[i] = reg})

\* C39 (as claimed): a step that changes the status calls every listener in the
\* list at the start of the notification exactly once, whatever the listeners do
\* when called.
C39_EveryListenerOnce ==
  [][status' # status
       => \A i \in 1..Len(listeners) :
            TimesIn(listeners[i].reg, InvokedBy(listeners, status', quality')) = 1]_vars

\* C40 (as claimed): when the status stays other than OFFLINE from some point on,
\* the drains empty the failed-operation map, whatever maxRetries the entries were
\* registered with.
C40_EveryEntryRemoved ==
  <>[](status # "OFFLINE") => <>[](failedOperations = <<>>)

====
